---- MODULE Spec2Model ----
(***************************************************************************)
(* A model of the pose-evaluation core of pixi-spine: the update-order     *)
(* scheduler of Skeleton (updateCache and its sort* helpers), the skin     *)
(* switch of Skeleton, and the world-transform computation of Bone.        *)
(*                                                                         *)
(* Numbers.  The source computes in IEEE doubles.  The model computes in   *)
(* exact rationals <<n, d>> (d > 0, lowest terms), extended by the three   *)
(* non-finite values <<1, 0>> (+Infinity), <<-1, 0>> (-Infinity) and       *)
(* <<0, 0>> (NaN).  Angles are restricted to multiples of 90 degrees and   *)
(* matrices to axis-aligned columns, where cos, sin, atan2 and sqrt are    *)
(* rational; outside of that domain the operators below are undefined and  *)
(* TLC stops with an error instead of computing a wrong value.             *)
(***************************************************************************)
EXTENDS Integers, Sequences, FiniteSets, TLC

(***************************************************************************)
(* Rational arithmetic standing for the source's number arithmetic.        *)
(***************************************************************************)
Abs(n) == IF n < 0 THEN -n ELSE n

Sign(n) == IF n < 0 THEN -1 ELSE IF n > 0 THEN 1 ELSE 0

RECURSIVE Gcd(_, _)
Gcd(m, n) == IF n = 0 THEN m ELSE Gcd(n, m % n)

\* The rational n/d in lowest terms; a zero denominator gives a non-finite value.
Norm(n, d) ==
    IF d = 0 THEN <<Sign(n), 0>>
    ELSE LET g == Gcd(Abs(n), Abs(d))
         IN  <<(Sign(d) * n) \div g, Abs(d) \div g>>

R(n) == <<n, 1>>

NaN == <<0, 0>>

IsFinite(q) == q[2] # 0

IsNaN(q) == q = NaN

\* a + b, with the rules of the double arithmetic for the non-finite values.
RAdd(p, q) ==
    IF IsNaN(p) \/ IsNaN(q) THEN NaN
    ELSE IF ~IsFinite(p) /\ ~IsFinite(q) THEN (IF p = q THEN p ELSE NaN)
    ELSE IF ~IsFinite(p) THEN p
    ELSE IF ~IsFinite(q) THEN q
    ELSE Norm(p[1] * q[2] + q[1] * p[2], p[2] * q[2])

RNeg(p) == <<-p[1], p[2]>>

RSub(p, q) == RAdd(p, RNeg(q))

\* a * b; 0 * Infinity is NaN.
RMul(p, q) ==
    IF IsNaN(p) \/ IsNaN(q) THEN NaN
    ELSE Norm(p[1] * q[1], p[2] * q[2])

\* a / b; x / 0 is an infinity of the sign of x, 0 / 0 and Infinity / Infinity are NaN.
RDiv(p, q) ==
    IF IsNaN(p) \/ IsNaN(q) THEN NaN
    ELSE IF ~IsFinite(p) /\ ~IsFinite(q) THEN NaN
    ELSE IF ~IsFinite(q) THEN R(0)
    ELSE IF ~IsFinite(p) THEN (IF q[1] < 0 THEN RNeg(p) ELSE p)
    ELSE Norm(p[1] * q[2], p[2] * q[1])

\* a < b and a > b; every comparison with NaN is false.
RLess(p, q) ==
    IF IsNaN(p) \/ IsNaN(q) THEN FALSE
    ELSE IF ~IsFinite(p) \/ ~IsFinite(q)
         THEN (IF IsFinite(p) THEN q[1] > 0
               ELSE IF IsFinite(q) THEN p[1] < 0
               ELSE p[1] < q[1])
    ELSE p[1] * q[2] < q[1] * p[2]

RGreater(p, q) == RLess(q, p)

RAbs(p) == <<Abs(p[1]), p[2]>>

\* The integer square root of a perfect square.
ISqrt(n) == CHOOSE k \in 0..n : k * k = n

\* Math.sqrt on the rationals whose root is rational.
RSqrt(p) ==
    IF IsNaN(p) \/ p[1] < 0 THEN NaN
    ELSE IF ~IsFinite(p) THEN p
    ELSE <<ISqrt(p[1]), ISqrt(p[2])>>

\* An angle in degrees reduced to 0..359.
Mod360(deg) == ((deg % 360) + 360) % 360

(***************************************************************************)
(* MathUtils and Math.  Angles are rationals in degrees; cosDeg and sinDeg *)
(* are defined on the multiples of 90 only.                                *)
(***************************************************************************)
IsInt(q) == q[2] = 1

CosQuarter(deg) ==
    CASE Mod360(deg) = 0 -> R(1)
      [] Mod360(deg) = 90 -> R(0)
      [] Mod360(deg) = 180 -> R(-1)
      [] Mod360(deg) = 270 -> R(0)

cosDeg(q) == IF ~IsFinite(q) THEN NaN ELSE CASE IsInt(q) -> CosQuarter(q[1])

sinDeg(q) == IF ~IsFinite(q) THEN NaN ELSE CASE IsInt(q) -> CosQuarter(q[1] - 90)

\* Math.atan2(y, x) * MathUtils.radDeg, for a vector on an axis (or the zero vector).
Atan2Deg(y, x) ==
    IF IsNaN(y) \/ IsNaN(x) THEN NaN
    ELSE IF ~IsFinite(y) /\ ~IsFinite(x)
         THEN R(Sign(y[1]) * (IF x[1] > 0 THEN 45 ELSE 135))
    ELSE IF ~IsFinite(y) THEN R(Sign(y[1]) * 90)
    ELSE IF ~IsFinite(x) THEN (IF x[1] > 0 THEN R(0)
                               ELSE IF y[1] < 0 THEN R(-180) ELSE R(180))
    ELSE CASE y[1] = 0 /\ x[1] >= 0 -> R(0)
           [] y[1] = 0 /\ x[1] < 0 -> R(180)
           [] x[1] = 0 /\ y[1] > 0 -> R(90)
           [] x[1] = 0 /\ y[1] < 0 -> R(-90)

(***************************************************************************)
(* Bone: the world transform.  A matrix is [a, b, c, d, tx, ty] in the     *)
(* naming of PIXI.Matrix: the source reads pa = a, pb = c, pc = b, pd = d. *)
(* A transform (the arguments of updateWorldTransformWith, the local and   *)
(* the applied transform) is [x, y, rotation, scaleX, scaleY, shearX,      *)
(* shearY].                                                                *)
(***************************************************************************)
Null == -1

TransformMode ==
    {"Normal", "OnlyTranslation", "NoRotationOrReflection", "NoScale", "NoScaleOrReflection"}

\* sx and sy of updateWorldTransformWith: the skeleton scale, sy negated under yDown.
EffScaleX(sk) == sk.scaleX

EffScaleY(sk, yd) == IF yd THEN RNeg(sk.scaleY) ELSE sk.scaleY

\* The local rotation, scale and shear as a 2x2 matrix [a, b, c, d] (la = a, lb = c, lc = b, ld = d).
LocalLinear(t) ==
    LET rotationY == RAdd(RAdd(t.rotation, R(90)), t.shearY)
        rotationX == RAdd(t.rotation, t.shearX)
    IN  [a |-> RMul(cosDeg(rotationX), t.scaleX),
         c |-> RMul(cosDeg(rotationY), t.scaleY),
         b |-> RMul(sinDeg(rotationX), t.scaleX),
         d |-> RMul(sinDeg(rotationY), t.scaleY)]

RootWorld_Transposed(sk, yd, t) ==
    LET sx == EffScaleX(sk)
        sy == EffScaleY(sk, yd)
        l == LocalLinear(t)
    IN  [a |-> RMul(l.a, sx), b |-> RMul(l.c, sx),
         c |-> RMul(l.b, sy), d |-> RMul(l.d, sy),
         tx |-> RAdd(RMul(t.x, sx), sk.x),
         ty |-> RAdd(RMul(t.y, sy), sk.y)]

\* The root branch: the skeleton scale and origin are applied directly.
RootWorld(sk, yd, t) ==
    LET sx == EffScaleX(sk)
        sy == EffScaleY(sk, yd)
        l == LocalLinear(t)
    IN  [a |-> RMul(l.a, sx), c |-> RMul(l.c, sx),
         b |-> RMul(l.b, sy), d |-> RMul(l.d, sy),
         tx |-> RAdd(RMul(t.x, sx), sk.x),
         ty |-> RAdd(RMul(t.y, sy), sk.y)]

ParentTranslate_Swapped(pm, t) ==
    [tx |-> RAdd(RAdd(RMul(pm.a, t.x), RMul(pm.b, t.y)), pm.tx),
     ty |-> RAdd(RAdd(RMul(pm.c, t.x), RMul(pm.d, t.y)), pm.ty)]

\* The world translation of a bone with a parent.
ParentTranslate(pm, t) ==
    [tx |-> RAdd(RAdd(RMul(pm.a, t.x), RMul(pm.c, t.y)), pm.tx),
     ty |-> RAdd(RAdd(RMul(pm.b, t.x), RMul(pm.d, t.y)), pm.ty)]

\* case TransformMode.Normal
LinearNormal(pm, t) ==
    LET l == LocalLinear(t)
    IN  [a |-> RAdd(RMul(pm.a, l.a), RMul(pm.c, l.b)),
         c |-> RAdd(RMul(pm.a, l.c), RMul(pm.c, l.d)),
         b |-> RAdd(RMul(pm.b, l.a), RMul(pm.d, l.b)),
         d |-> RAdd(RMul(pm.b, l.c), RMul(pm.d, l.d))]

LinearOnlyTranslation_Unit(t) ==
    LocalLinear([t EXCEPT !.scaleX = R(1), !.scaleY = R(1)])

\* case TransformMode.OnlyTranslation
LinearOnlyTranslation(t) == LocalLinear(t)

\* case TransformMode.NoRotationOrReflection
LinearNoRotationOrReflection(pm, sk, t) ==
    LET s0 == RAdd(RMul(pm.a, pm.a), RMul(pm.b, pm.b))
        big == RGreater(s0, <<1, 10000>>)
        s == RDiv(RAbs(RSub(RMul(pm.a, pm.d), RMul(pm.c, pm.b))), s0)
        pa == IF big THEN RDiv(pm.a, sk.scaleX) ELSE R(0)
        pc == IF big THEN RDiv(pm.b, sk.scaleY) ELSE R(0)
        pb == IF big THEN RMul(pc, s) ELSE pm.c
        pd == IF big THEN RMul(pa, s) ELSE pm.d
        prx == IF big THEN Atan2Deg(pc, pa) ELSE RSub(R(90), Atan2Deg(pd, pb))
        rx == RSub(RAdd(t.rotation, t.shearX), prx)
        ry == RAdd(RSub(RAdd(t.rotation, t.shearY), prx), R(90))
        la == RMul(cosDeg(rx), t.scaleX)
        lb == RMul(cosDeg(ry), t.scaleY)
        lc == RMul(sinDeg(rx), t.scaleX)
        ld == RMul(sinDeg(ry), t.scaleY)
    IN  [a |-> RSub(RMul(pa, la), RMul(pb, lc)),
         c |-> RSub(RMul(pa, lb), RMul(pb, ld)),
         b |-> RAdd(RMul(pc, la), RMul(pd, lc)),
         d |-> RAdd(RMul(pc, lb), RMul(pd, ld))]

\* Math.sqrt(za * za + zc * zc)
NoScaleLength(za, zc) == RSqrt(RAdd(RMul(za, za), RMul(zc, zc)))

\* if (s > 0.00001) s = 1 / s
NoScaleInverse(s) == IF RGreater(s, <<1, 100000>>) THEN RDiv(R(1), s) ELSE s

\* The condition under which NoScale negates s: the parent reflects and the skeleton does not, or the reverse.
NoScaleNegates(mode, pm, sk, yd) ==
    /\ mode = "NoScale"
    /\ RLess(RSub(RMul(pm.a, pm.d), RMul(pm.c, pm.b)), R(0))
         # (IF yd
            THEN RLess(sk.scaleX, R(0)) # RGreater(sk.scaleY, R(0))
            ELSE RLess(sk.scaleX, R(0)) # RLess(sk.scaleY, R(0)))

\* r = PI / 2 + atan2(zc, za); zb = cos(r) * s; zd = sin(r) * s; la, lb, lc, ld; m.a .. m.d
NoScaleCompose(za, zc, s, t) ==
    LET r == RAdd(R(90), Atan2Deg(zc, za))
    IN  [a |-> RAdd(RMul(za, RMul(cosDeg(t.shearX), t.scaleX)),
                    RMul(RMul(cosDeg(r), s), RMul(sinDeg(t.shearX), t.scaleX))),
         c |-> RAdd(RMul(za, RMul(cosDeg(RAdd(R(90), t.shearY)), t.scaleY)),
                    RMul(RMul(cosDeg(r), s), RMul(sinDeg(RAdd(R(90), t.shearY)), t.scaleY))),
         b |-> RAdd(RMul(zc, RMul(cosDeg(t.shearX), t.scaleX)),
                    RMul(RMul(sinDeg(r), s), RMul(sinDeg(t.shearX), t.scaleX))),
         d |-> RAdd(RMul(zc, RMul(cosDeg(RAdd(R(90), t.shearY)), t.scaleY)),
                    RMul(RMul(sinDeg(r), s), RMul(sinDeg(RAdd(R(90), t.shearY)), t.scaleY)))]

\* s = Math.sqrt(za * za + zc * zc), negated on the condition above
NoScaleUnit(negate, za, zc, t) ==
    NoScaleCompose(za, zc,
                   IF negate THEN RNeg(NoScaleLength(za, zc)) ELSE NoScaleLength(za, zc), t)

\* za *= s; zc *= s
NoScaleScaled(negate, za, zc, s, t) == NoScaleUnit(negate, RMul(za, s), RMul(zc, s), t)

NoScaleFrom(negate, za, zc, t) ==
    NoScaleScaled(negate, za, zc, NoScaleInverse(NoScaleLength(za, zc)), t)

\* case TransformMode.NoScale, case TransformMode.NoScaleOrReflection
LinearNoScale(mode, pm, sk, yd, t) ==
    NoScaleFrom(NoScaleNegates(mode, pm, sk, yd),
                RDiv(RAdd(RMul(pm.a, cosDeg(t.rotation)), RMul(pm.c, sinDeg(t.rotation))),
                     EffScaleX(sk)),
                RDiv(RAdd(RMul(pm.b, cosDeg(t.rotation)), RMul(pm.d, sinDeg(t.rotation))),
                     EffScaleY(sk, yd)),
                t)

\* The switch over this.data.transformMode: the linear part each case composes.
ComposedLinear(mode, pm, sk, yd, t) ==
    CASE mode = "Normal" -> LinearNormal(pm, t)
      [] mode = "OnlyTranslation" -> LinearOnlyTranslation(t)
      [] mode = "NoRotationOrReflection" -> LinearNoRotationOrReflection(pm, sk, t)
      [] mode \in {"NoScale", "NoScaleOrReflection"} -> LinearNoScale(mode, pm, sk, yd, t)

FinalMultiply_Crossed(l, sx, sy) ==
    [a |-> RMul(l.a, sx), c |-> RMul(l.c, sy), b |-> RMul(l.b, sx), d |-> RMul(l.d, sy)]

\* m.a *= sx; m.c *= sx; m.b *= sy; m.d *= sy
FinalMultiply(l, sx, sy) ==
    [a |-> RMul(l.a, sx), c |-> RMul(l.c, sx), b |-> RMul(l.b, sy), d |-> RMul(l.d, sy)]

WithTranslation(l, tr) ==
    [a |-> l.a, b |-> l.b, c |-> l.c, d |-> l.d, tx |-> tr.tx, ty |-> tr.ty]

\* The cases that break out of the switch reach the final multiply; Normal returns before it.
ReachesFinalMultiply(mode) == mode # "Normal"

\* The world matrix updateWorldTransformWith stores for a bone with a parent.
ChildWorld(mode, pm, sk, yd, t) ==
    LET tr == ParentTranslate(pm, t)
        l == ComposedLinear(mode, pm, sk, yd, t)
    IN  IF ReachesFinalMultiply(mode)
        THEN WithTranslation(FinalMultiply(l, EffScaleX(sk), EffScaleY(sk, yd)), tr)
        ELSE WithTranslation(l, tr)

(***************************************************************************)
(* State.                                                                  *)
(***************************************************************************)
VARIABLES
    boneData,               \* data.bones: per bone [parent, transformMode, pose]
    ikConstraints,          \* skeleton.ikConstraints: [order, target, bones]
    transformConstraints,   \* skeleton.transformConstraints: [order, target, bones, local]
    pathConstraints,        \* skeleton.pathConstraints: [order, target, bones], target a slot
    slots,                  \* data.slots: per slot [bone, attachmentName]
    skins,                  \* data.skins: [name, attachments]
    defaultSkin,            \* data.defaultSkin: an index of skins, or Null
    names,                  \* data.name of the bones, slots and constraints, per array
    animations,             \* data.animations: the duration of each Animation
    skin,                   \* skeleton.skin: an index of skins, or Null
    attachment,             \* slot.attachment: per slot [skin, key], NoAttachment for null
    sorted,                 \* bone.sorted
    _updateCache,           \* skeleton._updateCache
    updateCacheReset,       \* skeleton.updateCacheReset
    local,                  \* bone.x, y, rotation, scaleX, scaleY, shearX, shearY
    applied,                \* bone.ax, ay, arotation, ascaleX, ascaleY, ashearX, ashearY
    matrix,                 \* bone.matrix
    skel,                   \* skeleton.scaleX, scaleY, x, y
    yDown,                  \* settings.yDown
    deprecatedWarning1,     \* Skeleton.deprecatedWarning1 (static)
    linkedMeshes,           \* SkeletonJson.linkedMeshes: [skin, slotIndex, parent]
    decoder,                \* readAnimation: the locals of the draw-order loop
    pc,                     \* "json": no SkeletonData yet; "data": no Skeleton yet;
                            \* "ready": constructed; "raised": an error was thrown
    last                    \* the operation that ran last: [op, bone, args]

rigVars == <<boneData, ikConstraints, transformConstraints, pathConstraints, slots, skins,
             defaultSkin, names, animations>>

cacheVars == <<sorted, _updateCache, updateCacheReset>>

poseVars == <<local, applied, matrix>>

envVars == <<yDown, deprecatedWarning1, linkedMeshes, decoder>>

\* no draw-order keyframe is being read
Idle ==
    [pc |-> "idle", offsets |-> <<>>, ii |-> 0, originalIndex |-> 0, unchangedIndex |-> 0,
     drawOrder |-> <<>>, unchanged |-> <<>>, isNull |-> TRUE]

vars == <<rigVars, skin, attachment, cacheVars, poseVars, skel, envVars, pc, last>>

Bones == DOMAIN boneData

\* Names that differ from one element of an array to the next.
Letters == <<"a", "b", "c", "d", "e", "f">>

NamesByIndex ==
    [bones |-> [b \in Bones |-> Letters[b + 1]],
     slots |-> [i \in DOMAIN slots |-> Letters[i]],
     ikConstraints |-> [i \in DOMAIN ikConstraints |-> Letters[i]],
     transformConstraints |-> [i \in DOMAIN transformConstraints |-> Letters[i]],
     pathConstraints |-> [i \in DOMAIN pathConstraints |-> Letters[i]]]

Transform(x, y, rotation, scaleX, scaleY, shearX, shearY) ==
    [x |-> R(x), y |-> R(y), rotation |-> R(rotation), scaleX |-> R(scaleX),
     scaleY |-> R(scaleY), shearX |-> R(shearX), shearY |-> R(shearY)]

\* The field initialisers of Bone: x = 0, ..., ashearY = 0 and matrix = new PIXI.Matrix().
ZeroTransform == Transform(0, 0, 0, 0, 0, 0, 0)

IdentityMatrix == [a |-> R(1), b |-> R(0), c |-> R(0), d |-> R(1), tx |-> R(0), ty |-> R(0)]

NoOp == [op |-> "none", bone |-> Null, args |-> ZeroTransform]

(***************************************************************************)
(* The inputs of the bone engine.                                          *)
(***************************************************************************)
\* The transforms passed to updateWorldTransformWith: the identity, a quarter turn
\* with a translation, a reflection, and a scaled transform sheared onto one line.
Args ==
    {Transform(0, 0, 0, 1, 1, 0, 0), Transform(1, 2, 90, 1, 1, 0, 0),
     Transform(0, 0, 0, 1, -1, 0, 0), Transform(2, 1, 0, 2, 1, 0, 90)}

\* The setup pose of the root bone and of its child.
RootPose == Transform(1, 2, 90, 1, 1, 0, 0)

ChildPose == Transform(2, 1, 0, 2, 1, 0, 90)

\* skeleton.scaleX, scaleY, x, y and settings.yDown.
SkeletonConfigs ==
    {<<1, 1, 0, 0, FALSE>>, <<1, 1, 0, 0, TRUE>>, <<1, -1, 0, 0, TRUE>>,
     <<1, 1, 1, 0, FALSE>>, <<2, -1, 0, 0, FALSE>>, <<2, -1, 1, 0, TRUE>>}

(***************************************************************************)
(* Skeleton: the update-order scheduler.  The sort methods work on         *)
(* [cache, reset, sorted, ok]: _updateCache, updateCacheReset, the sorted  *)
(* flags, and ok = FALSE once a TypeError was thrown (a property of null   *)
(* was read), after which nothing more is executed.                        *)
(***************************************************************************)
Parent(b) == boneData[b].parent

\* bone.children: the bones whose parent is b, in the order the constructor pushed them.
RECURSIVE ChildrenFrom(_, _)
ChildrenFrom(b, i) ==
    IF i \notin Bones THEN <<>>
    ELSE IF Parent(i) = b THEN <<i>> \o ChildrenFrom(b, i + 1)
    ELSE ChildrenFrom(b, i + 1)

Children(b) == ChildrenFrom(b, 0)

BoneEntry(b) == [kind |-> "bone", index |-> b]

InCache(cache, e) == \E i \in 1..Len(cache) : cache[i] = e

Push(st, e) == IF st.ok THEN [st EXCEPT !.cache = Append(@, e)] ELSE st

PushReset(st, b) == IF st.ok THEN [st EXCEPT !.reset = Append(@, b)] ELSE st

Mark(st, b) == IF st.ok THEN [st EXCEPT !.sorted[b] = TRUE] ELSE st

SortBone_NoParent(st, bone) ==
    IF ~st.ok THEN st
    ELSE IF bone = Null THEN [st EXCEPT !.ok = FALSE]
    ELSE IF st.sorted[bone] THEN st
    ELSE Push(Mark(st, bone), BoneEntry(bone))

\* sortBone; reading null.sorted throws.
RECURSIVE sortBone(_, _)
sortBone(st, bone) ==
    IF ~st.ok THEN st
    ELSE IF bone = Null THEN [st EXCEPT !.ok = FALSE]
    ELSE IF st.sorted[bone] THEN st
    ELSE Push(Mark(IF Parent(bone) # Null THEN sortBone(st, Parent(bone)) ELSE st, bone),
              BoneEntry(bone))

\* sortBone on each bone of a list, in order.
RECURSIVE SortBones(_, _)
SortBones(st, bs) ==
    IF bs = <<>> THEN st ELSE SortBones(sortBone(st, Head(bs)), Tail(bs))

\* sortReset
RECURSIVE sortReset(_, _)
RECURSIVE SortResetStep(_, _)
SortResetStep_Flat(st, bone) == [st EXCEPT !.sorted[bone] = FALSE]

SortResetStep(st, bone) ==
    [(IF st.sorted[bone] THEN sortReset(st, Children(bone)) ELSE st)
        EXCEPT !.sorted[bone] = FALSE]

sortReset(st, bs) ==
    IF ~st.ok \/ bs = <<>> THEN st ELSE sortReset(SortResetStep(st, Head(bs)), Tail(bs))

\* for (...) sortReset(constrained[i].children)
RECURSIVE ResetChildrenOf(_, _)
ResetChildrenOf(st, bs) ==
    IF bs = <<>> THEN st ELSE ResetChildrenOf(sortReset(st, Children(Head(bs))), Tail(bs))

\* for (...) constrained[i].sorted = true
RECURSIVE MarkAll(_, _)
MarkAll(st, bs) == IF bs = <<>> THEN st ELSE MarkAll(Mark(st, Head(bs)), Tail(bs))

Last(bs) == bs[Len(bs)]

ResetUnlessCached_Never(st, child) == st

\* if (!(this._updateCache.indexOf(child) > -1)) this.updateCacheReset.push(child)
ResetUnlessCached(st, child) ==
    IF st.ok /\ ~InCache(st.cache, BoneEntry(child)) THEN PushReset(st, child) ELSE st

IkMarkChild_Parent(st, c) ==
    IF Len(c.bones) > 1 THEN ResetUnlessCached(st, c.bones[1]) ELSE st

IkMarkChild(st, c) ==
    IF Len(c.bones) > 1 THEN ResetUnlessCached(st, Last(c.bones)) ELSE st

sortIkConstraint_NoTarget(st, c, ii) ==
    Mark(sortReset(Push(IkMarkChild(sortBone(st, c.bones[1]), c),
                        [kind |-> "ik", index |-> ii]),
                   Children(c.bones[1])),
         Last(c.bones))

sortIkConstraint(st, c, ii) ==
    Mark(sortReset(Push(IkMarkChild(sortBone(sortBone(st, c.target), c.bones[1]), c),
                        [kind |-> "ik", index |-> ii]),
                   Children(c.bones[1])),
         Last(c.bones))

RECURSIVE SortLocalParents_Unchecked(_, _)
SortLocalParents_Unchecked(st, bs) ==
    IF bs = <<>> \/ ~st.ok THEN st
    ELSE SortLocalParents_Unchecked(PushReset(sortBone(st, Parent(Head(bs))), Head(bs)),
                                    Tail(bs))

\* The loop of the local branch: sortBone(child.parent), then the reset mark of child.
RECURSIVE SortLocalParents(_, _)
SortLocalParents(st, bs) ==
    IF bs = <<>> \/ ~st.ok THEN st
    ELSE SortLocalParents(ResetUnlessCached(sortBone(st, Parent(Head(bs))), Head(bs)),
                          Tail(bs))

TransformSortConstrained(st, c) ==
    IF c.local THEN SortLocalParents(st, c.bones) ELSE SortBones(st, c.bones)

sortTransformConstraint(st, c, ii) ==
    MarkAll(ResetChildrenOf(Push(TransformSortConstrained(sortBone(st, c.target), c),
                                 [kind |-> "transform", index |-> ii]),
                            c.bones),
            c.bones)

\* The bone indices of a PathAttachment's bones array: a bone count, then that many
\* bone indices, repeated.
RECURSIVE PathBonesFrom(_, _)
PathBonesFrom(pathBones, i) ==
    IF i > Len(pathBones) THEN <<>>
    ELSE SubSeq(pathBones, i + 1, i + pathBones[i])
            \o PathBonesFrom(pathBones, i + pathBones[i] + 1)

sortPathConstraintAttachmentWith(st, att, slotBone) ==
    IF att.type # "path" THEN st
    ELSE IF ~att.weighted THEN sortBone(st, slotBone)
    ELSE SortBones(st, PathBonesFrom(att.bones, 1))

\* for (let key in attachments) sortPathConstraintAttachmentWith(attachments[key], slotBone)
RECURSIVE SortAttachments(_, _, _)
SortAttachments(st, atts, slotBone) ==
    IF atts = <<>> THEN st
    ELSE SortAttachments(sortPathConstraintAttachmentWith(st, Head(atts), slotBone),
                         Tail(atts), slotBone)

sortPathConstraintAttachment(st, sk, slotIndex, slotBone) ==
    SortAttachments(st, skins[sk].attachments[slotIndex], slotBone)

\* for (...) sortPathConstraintAttachment(this.data.skins[i], slotIndex, slotBone)
RECURSIVE SortAllSkins(_, _, _, _)
SortAllSkins(st, i, slotIndex, slotBone) ==
    IF i > Len(skins) THEN st
    ELSE SortAllSkins(sortPathConstraintAttachment(st, i, slotIndex, slotBone),
                      i + 1, slotIndex, slotBone)

NoAttachment == [skin |-> Null, key |-> Null]

SortActiveSkin(st, sk, slotIndex, slotBone) ==
    IF sk # Null THEN sortPathConstraintAttachment(st, sk, slotIndex, slotBone) ELSE st

SortDefaultSkin(st, sk, slotIndex, slotBone) ==
    IF defaultSkin # Null /\ defaultSkin # sk
    THEN sortPathConstraintAttachment(st, defaultSkin, slotIndex, slotBone)
    ELSE st

\* let attachment = slot.getAttachment(); if (attachment instanceof PathAttachment) ...
SortSlotAttachment(st, att, slotIndex, slotBone) ==
    IF att # NoAttachment
    THEN sortPathConstraintAttachmentWith(
             st, skins[att.skin].attachments[slotIndex][att.key], slotBone)
    ELSE st

PathSortAttachments(st, sk, atts, slotIndex, slotBone) ==
    SortSlotAttachment(
        SortAllSkins(
            SortDefaultSkin(SortActiveSkin(st, sk, slotIndex, slotBone),
                            sk, slotIndex, slotBone),
            1, slotIndex, slotBone),
        atts[slotIndex], slotIndex, slotBone)

sortPathConstraint(st, sk, atts, c, ii) ==
    MarkAll(ResetChildrenOf(Push(SortBones(PathSortAttachments(st, sk, atts, c.target,
                                                                slots[c.target].bone),
                                           c.bones),
                                 [kind |-> "path", index |-> ii]),
                            c.bones),
            c.bones)

FirstWithOrder_Any(cs, i) == IF cs # <<>> THEN 1 ELSE 0

\* The first constraint of a list whose order is i, or 0.
FirstWithOrder(cs, i) ==
    IF \E ii \in 1..Len(cs) : cs[ii].order = i
    THEN CHOOSE ii \in 1..Len(cs) :
            cs[ii].order = i /\ \A jj \in 1..(ii - 1) : cs[jj].order # i
    ELSE 0

\* One round of the loop labelled outer: IK first, then transform, then path.
Dispatch(st, sk, atts, i) ==
    IF FirstWithOrder(ikConstraints, i) # 0
    THEN sortIkConstraint(st, ikConstraints[FirstWithOrder(ikConstraints, i)],
                          FirstWithOrder(ikConstraints, i))
    ELSE IF FirstWithOrder(transformConstraints, i) # 0
    THEN sortTransformConstraint(
             st, transformConstraints[FirstWithOrder(transformConstraints, i)],
             FirstWithOrder(transformConstraints, i))
    ELSE IF FirstWithOrder(pathConstraints, i) # 0
    THEN sortPathConstraint(st, sk, atts,
                            pathConstraints[FirstWithOrder(pathConstraints, i)],
                            FirstWithOrder(pathConstraints, i))
    ELSE st

constraintCount == Len(ikConstraints) + Len(transformConstraints) + Len(pathConstraints)

RECURSIVE DispatchFrom(_, _, _, _)
DispatchFrom(st, sk, atts, i) ==
    IF i >= constraintCount \/ ~st.ok THEN st
    ELSE DispatchFrom(Dispatch(st, sk, atts, i), sk, atts, i + 1)

RECURSIVE BonesFrom_Downwards(_)
BonesFrom_Downwards(i) == IF i \in Bones THEN BonesFrom_Downwards(i + 1) \o <<i>> ELSE <<>>

\* The bones in declaration order.
RECURSIVE BonesFrom(_)
BonesFrom(i) == IF i \in Bones THEN <<i>> \o BonesFrom(i + 1) ELSE <<>>

ClearedSort ==
    [cache |-> <<>>, reset |-> <<>>, sorted |-> [b \in Bones |-> FALSE], ok |-> TRUE]

\* What updateCache() computes with active skin sk and slot attachments atts.
UpdateCacheOf(sk, atts) == SortBones(DispatchFrom(ClearedSort, sk, atts, 0), BonesFrom(0))

(***************************************************************************)
(* Bone operations.                                                        *)
(***************************************************************************)
AppliedWith_Kept(app, b, t) == app

\* this.ax = x; ...; this.ashearY = shearY
AppliedWith(app, b, t) == [app EXCEPT ![b] = t]

\* The matrix updateWorldTransformWith stores in bone b.
WorldWith(b, t) ==
    IF boneData[b].parent = Null
    THEN RootWorld(skel, yDown, t)
    ELSE ChildWorld(boneData[b].transformMode, matrix[boneData[b].parent], skel, yDown, t)

WorldTransformWith(b, t, op) ==
    /\ applied' = AppliedWith(applied, b, t)
    /\ matrix' = [matrix EXCEPT ![b] = WorldWith(b, t)]
    /\ last' = [op |-> op, bone |-> b, args |-> t]
    /\ UNCHANGED <<rigVars, skin, attachment, cacheVars, local, skel, envVars, pc>>

updateWorldTransformWith ==
    \E b \in Bones, t \in Args : WorldTransformWith(b, t, "updateWorldTransformWith")

updateWorldTransform ==
    \E b \in Bones : WorldTransformWith(b, local[b], "updateWorldTransform")

update ==
    \E b \in Bones : WorldTransformWith(b, applied[b], "update")

(***************************************************************************)
(* The bone engine on a root bone with one child: the rig, the skeleton    *)
(* scale and origin, the yDown setting and the poses are the inputs.       *)
(***************************************************************************)
BoneInit ==
    /\ \E m \in TransformMode :
          boneData = (0 :> [parent |-> Null, transformMode |-> "Normal", pose |-> RootPose])
                     @@ (1 :> [parent |-> 0, transformMode |-> m, pose |-> ChildPose])
    /\ ikConstraints = <<>> /\ transformConstraints = <<>> /\ pathConstraints = <<>>
    /\ slots = <<>> /\ skins = <<>> /\ defaultSkin = Null /\ skin = Null
    /\ names = NamesByIndex
    /\ animations = <<>>
    /\ attachment = <<>>
    /\ sorted = UpdateCacheOf(Null, <<>>).sorted
    /\ _updateCache = UpdateCacheOf(Null, <<>>).cache
    /\ updateCacheReset = UpdateCacheOf(Null, <<>>).reset
    /\ pc = "ready"
    /\ local = [b \in DOMAIN boneData |-> boneData[b].pose]
    /\ applied = [b \in DOMAIN boneData |-> ZeroTransform]
    /\ matrix = [b \in DOMAIN boneData |-> IdentityMatrix]
    /\ \E k \in SkeletonConfigs :
          /\ skel = [scaleX |-> R(k[1]), scaleY |-> R(k[2]), x |-> R(k[3]), y |-> R(k[4])]
          /\ yDown = k[5]
          /\ deprecatedWarning1 = FALSE
          /\ linkedMeshes = <<>>
          /\ decoder = Idle
    /\ last = NoOp

BoneNext ==
    \/ updateWorldTransformWith
    \/ updateWorldTransform
    \/ update

BoneSpec == BoneInit /\ [][BoneNext]_vars

(***************************************************************************)
(* Properties of the bone engine.                                          *)
(***************************************************************************)
WithOps == {"updateWorldTransformWith", "updateWorldTransform", "update"}

\* The bone the last operation updated has a parent, and its matrix was computed
\* from the parent's matrix as it is now (no operation changes another bone).
ChildUpdated == last.op \in WithOps /\ boneData[last.bone].parent # Null

RootUpdated == last.op \in WithOps /\ boneData[last.bone].parent = Null

ParentMatrix == matrix[boneData[last.bone].parent]

Linear(m) == [a |-> m.a, b |-> m.b, c |-> m.c, d |-> m.d]

\* C6: updateWorldTransformWith sets the applied transform of its bone to exactly
\* its arguments and changes neither the local transforms nor any other bone; so
\* after updateWorldTransform() the applied transform equals the local transform,
\* and update() leaves the applied transform as it was.
C6_AppliedIsArguments ==
    [][last'.op \in WithOps =>
          LET b == last'.bone
          IN  /\ applied'[b] = last'.args
              /\ local' = local
              /\ \A o \in Bones \ {b} : applied'[o] = applied[o] /\ matrix'[o] = matrix[o]
              /\ (last'.op = "updateWorldTransform" => applied'[b] = local[b])
              /\ (last'.op = "update" => applied' = applied)]_vars

\* The root was updated with arguments other than its local transform, after its
\* child had been updated: the child keeps its applied transform and matrix.
C6_Witness ==
    /\ last.op = "updateWorldTransformWith"
    /\ last.bone = 0
    /\ applied[0] = last.args
    /\ applied[0] # local[0]
    /\ applied[1] # ZeroTransform
    /\ matrix[1] # IdentityMatrix

\* C7: for a bone with a parent, in every TransformMode, the world translation is
\* the parent's world matrix applied to (x, y) plus the parent's world translation:
\* tx = pa*x + pb*y + parent.tx, ty = pc*x + pd*y + parent.ty.
C7_ChildTranslation ==
    ChildUpdated =>
        LET pm == ParentMatrix
            t == last.args
            m == matrix[last.bone]
        IN  /\ m.tx = RAdd(RAdd(RMul(pm.a, t.x), RMul(pm.c, t.y)), pm.tx)
            /\ m.ty = RAdd(RAdd(RMul(pm.b, t.x), RMul(pm.d, t.y)), pm.ty)

\* A child in a mode other than Normal, under a rotated and translated parent and a
\* skeleton scale other than 1, was updated with a translation and a rotation.
C7_Witness ==
    /\ ChildUpdated
    /\ boneData[last.bone].transformMode = "NoScale"
    /\ ParentMatrix.b # ParentMatrix.c
    /\ ParentMatrix.tx # R(0)
    /\ last.args.y # R(0)
    /\ last.args.rotation # R(0)
    /\ skel.scaleX # R(1)

\* The linear part the claim of C8 describes: what the mode composes, multiplied by
\* the skeleton scale (a and c by sx, b and d by sy).
ComposedOfLast ==
    IF boneData[last.bone].parent = Null
    THEN LocalLinear(last.args)
    ELSE ComposedLinear(boneData[last.bone].transformMode, ParentMatrix, skel, yDown, last.args)

ScaledBySkeleton(l) ==
    [a |-> RMul(l.a, EffScaleX(skel)), c |-> RMul(l.c, EffScaleX(skel)),
     b |-> RMul(l.b, EffScaleY(skel, yDown)), d |-> RMul(l.d, EffScaleY(skel, yDown))]

\* C8 as stated: for every bone and every TransformMode the composed linear part is
\* multiplied by the skeleton scale as the final step.
C8_Original ==
    last.op \in WithOps => Linear(matrix[last.bone]) = ScaledBySkeleton(ComposedOfLast)

\* C8 as amended: the composed linear part is multiplied by the skeleton scale for
\* a root bone and for a bone with a parent in every mode but Normal; in mode Normal
\* a bone with a parent stores the product of the parent's matrix and the local
\* matrix without the multiply.
C8_Amended ==
    /\ RootUpdated => Linear(matrix[last.bone]) = ScaledBySkeleton(ComposedOfLast)
    /\ ChildUpdated /\ boneData[last.bone].transformMode # "Normal" =>
          Linear(matrix[last.bone]) = ScaledBySkeleton(ComposedOfLast)
    /\ ChildUpdated /\ boneData[last.bone].transformMode = "Normal" =>
          Linear(matrix[last.bone]) = ComposedOfLast

\* A child in mode OnlyTranslation was updated with a quarter turn under a skeleton
\* scale whose components differ: the multiply changes b and c.
C8_Witness ==
    /\ ChildUpdated
    /\ boneData[last.bone].transformMode = "OnlyTranslation"
    /\ EffScaleX(skel) # EffScaleY(skel, yDown)
    /\ ComposedOfLast.b # R(0)
    /\ Linear(matrix[last.bone]) # ComposedOfLast

\* The local transform read as a 2x3 affine matrix.
AffineOf(t) ==
    [tx |-> t.x, ty |-> t.y,
     a |-> RMul(cosDeg(RAdd(t.rotation, t.shearX)), t.scaleX),
     b |-> RMul(sinDeg(RAdd(t.rotation, t.shearX)), t.scaleX),
     c |-> RMul(cosDeg(RAdd(RAdd(t.rotation, R(90)), t.shearY)), t.scaleY),
     d |-> RMul(sinDeg(RAdd(RAdd(t.rotation, R(90)), t.shearY)), t.scaleY)]

UnitSkeletonScale == skel.scaleX = R(1) /\ skel.scaleY = R(1)

\* C9 as stated: for a bone with no parent and skeleton scale (1, 1) the world
\* matrix is the local transform read as a 2x3 affine matrix.
C9_Original ==
    RootUpdated /\ UnitSkeletonScale => matrix[last.bone] = AffineOf(last.args)

\* C9 as amended: the same, for skeleton scale (1, 1) with the yDown setting off and
\* the skeleton origin (skeleton.x, skeleton.y) at (0, 0).
C9_Amended ==
    RootUpdated /\ UnitSkeletonScale /\ ~yDown /\ skel.x = R(0) /\ skel.y = R(0) =>
        matrix[last.bone] = AffineOf(last.args)

\* updateWorldTransform() ran on the root, whose local transform has a translation
\* and a quarter turn, with skeleton scale (1, 1), yDown off and the origin at (0, 0).
C9_Witness ==
    /\ RootUpdated
    /\ last.op = "updateWorldTransform"
    /\ UnitSkeletonScale /\ ~yDown /\ skel.x = R(0) /\ skel.y = R(0)
    /\ local[last.bone].y # R(0)
    /\ matrix[last.bone].b # R(0)

\* C10 as stated: when the parent's world matrix is the identity, every mode gives
\* the world matrix that mode Normal gives for the same arguments.
C10_Original ==
    ChildUpdated /\ ParentMatrix = IdentityMatrix =>
        matrix[last.bone] = ChildWorld("Normal", ParentMatrix, skel, yDown, last.args)

\* C10 as amended: the same, when moreover the skeleton scale in effect is (1, 1):
\* skeleton.scaleX = 1 and skeleton.scaleY = 1 with yDown off, or -1 with yDown on.
C10_Amended ==
    /\ ChildUpdated
    /\ ParentMatrix = IdentityMatrix
    /\ EffScaleX(skel) = R(1)
    /\ EffScaleY(skel, yDown) = R(1)
    => matrix[last.bone] = ChildWorld("Normal", ParentMatrix, skel, yDown, last.args)

\* A child in mode OnlyTranslation was updated, with a quarter turn and a translation,
\* under a parent that had itself been updated to the identity matrix, yDown being on.
C10_Witness ==
    /\ ChildUpdated
    /\ boneData[last.bone].transformMode = "OnlyTranslation"
    /\ ParentMatrix = IdentityMatrix
    /\ applied[boneData[last.bone].parent] # ZeroTransform
    /\ EffScaleX(skel) = R(1) /\ EffScaleY(skel, yDown) = R(1) /\ yDown
    /\ last.args.rotation # R(0)

(***************************************************************************)
(* Bone: updateAppliedTransform, the applied transform read back from the  *)
(* world matrix.  A zero has no sign in this arithmetic: x / 0 is the      *)
(* infinity of the sign of x, as for +0.                                   *)
(***************************************************************************)
\* The root branch: the world matrix is read as the local transform.
AppliedOfRoot(m) ==
    [x |-> m.tx, y |-> m.ty,
     rotation |-> Atan2Deg(m.b, m.a),
     scaleX |-> RSqrt(RAdd(RMul(m.a, m.a), RMul(m.b, m.b))),
     scaleY |-> RSqrt(RAdd(RMul(m.c, m.c), RMul(m.d, m.d))),
     shearX |-> R(0),
     shearY |-> Atan2Deg(RAdd(RMul(m.a, m.c), RMul(m.b, m.d)),
                         RSub(RMul(m.a, m.d), RMul(m.b, m.c)))]

Determinant(pm) == RSub(RMul(pm.a, pm.d), RMul(pm.b, pm.c))

\* let pid = 1 / (pm.a * pm.d - pm.b * pm.c)
ParentInverseDet(pm) == RDiv(R(1), Determinant(pm))

\* this.ax, this.ay of a bone with a parent
AppliedTranslation(pm, m, pid) ==
    [x |-> RSub(RMul(RMul(RSub(m.tx, pm.tx), pm.d), pid),
                RMul(RMul(RSub(m.ty, pm.ty), pm.c), pid)),
     y |-> RSub(RMul(RMul(RSub(m.ty, pm.ty), pm.a), pid),
                RMul(RMul(RSub(m.tx, pm.tx), pm.b), pid))]

\* ra, rb, rc, rd: the world matrix times the inverse of the parent's.
LocalOfWorld(pm, m, pid) ==
    [ra |-> RSub(RMul(RMul(pid, pm.d), m.a), RMul(RMul(pid, pm.c), m.b)),
     rb |-> RSub(RMul(RMul(pid, pm.d), m.c), RMul(RMul(pid, pm.c), m.d)),
     rc |-> RSub(RMul(RMul(pid, pm.a), m.b), RMul(RMul(pid, pm.b), m.a)),
     rd |-> RSub(RMul(RMul(pid, pm.a), m.d), RMul(RMul(pid, pm.b), m.c))]

LocalDet(r) == RSub(RMul(r.ra, r.rd), RMul(r.rb, r.rc))

Decompose_Turned(tr, r, scaleX) ==
    [x |-> tr.x, y |-> tr.y, rotation |-> Atan2Deg(r.ra, r.rc), scaleX |-> scaleX,
     scaleY |-> RDiv(LocalDet(r), scaleX), shearX |-> R(0),
     shearY |-> Atan2Deg(RAdd(RMul(r.ra, r.rb), RMul(r.rc, r.rd)), LocalDet(r))]

\* The two branches on this.ascaleX > 0.0001, scaleX being Math.sqrt(ra * ra + rc * rc).
Decompose(tr, r, scaleX) ==
    IF RGreater(scaleX, <<1, 10000>>)
    THEN [x |-> tr.x, y |-> tr.y,
          rotation |-> Atan2Deg(r.rc, r.ra),
          scaleX |-> scaleX,
          scaleY |-> RDiv(LocalDet(r), scaleX),
          shearX |-> R(0),
          shearY |-> Atan2Deg(RAdd(RMul(r.ra, r.rb), RMul(r.rc, r.rd)), LocalDet(r))]
    ELSE [x |-> tr.x, y |-> tr.y,
          rotation |-> RSub(R(90), Atan2Deg(r.rd, r.rb)),
          scaleX |-> R(0),
          scaleY |-> RSqrt(RAdd(RMul(r.rb, r.rb), RMul(r.rd, r.rd))),
          shearX |-> R(0),
          shearY |-> R(0)]

DecomposeLocal(tr, r) ==
    Decompose(tr, r, RSqrt(RAdd(RMul(r.ra, r.ra), RMul(r.rc, r.rc))))

AppliedFrom(pm, m, pid) ==
    DecomposeLocal(AppliedTranslation(pm, m, pid), LocalOfWorld(pm, m, pid))

\* The branch of a bone with a parent.
AppliedOfChild(pm, m) == AppliedFrom(pm, m, ParentInverseDet(pm))

\* The applied transform updateAppliedTransform() stores in bone b.
AppliedOf(b) ==
    IF boneData[b].parent = Null
    THEN AppliedOfRoot(matrix[b])
    ELSE AppliedOfChild(matrix[boneData[b].parent], matrix[b])

updateAppliedTransform ==
    \E b \in Bones :
        /\ applied' = [applied EXCEPT ![b] = AppliedOf(b)]
        /\ last' = [op |-> "updateAppliedTransform", bone |-> b, args |-> AppliedOf(b)]
        /\ UNCHANGED <<rigVars, skin, attachment, cacheVars, local, matrix, skel, envVars, pc>>

(***************************************************************************)
(* updateWorldTransform() and updateAppliedTransform() on a root bone with *)
(* one child, the local transforms of both being inputs.  update() is left *)
(* out: it would compute with the applied transform, which after a         *)
(* division by zero holds angles that are no multiples of 90 degrees.      *)
(***************************************************************************)
AppliedInit ==
    /\ \E m \in TransformMode, r \in Args, c \in Args :
          boneData = (0 :> [parent |-> Null, transformMode |-> "Normal", pose |-> r])
                     @@ (1 :> [parent |-> 0, transformMode |-> m, pose |-> c])
    /\ ikConstraints = <<>> /\ transformConstraints = <<>> /\ pathConstraints = <<>>
    /\ slots = <<>> /\ skins = <<>> /\ defaultSkin = Null /\ skin = Null
    /\ names = NamesByIndex
    /\ animations = <<>>
    /\ attachment = <<>>
    /\ sorted = UpdateCacheOf(Null, <<>>).sorted
    /\ _updateCache = UpdateCacheOf(Null, <<>>).cache
    /\ updateCacheReset = UpdateCacheOf(Null, <<>>).reset
    /\ pc = "ready"
    /\ local = [b \in DOMAIN boneData |-> boneData[b].pose]
    /\ applied = [b \in DOMAIN boneData |-> ZeroTransform]
    /\ matrix = [b \in DOMAIN boneData |-> IdentityMatrix]
    /\ \E k \in SkeletonConfigs :
          /\ skel = [scaleX |-> R(k[1]), scaleY |-> R(k[2]), x |-> R(k[3]), y |-> R(k[4])]
          /\ yDown = k[5]
          /\ deprecatedWarning1 = FALSE
          /\ linkedMeshes = <<>>
          /\ decoder = Idle
    /\ last = NoOp

AppliedNext ==
    \/ updateWorldTransform
    \/ updateAppliedTransform

AppliedSpec == AppliedInit /\ [][AppliedNext]_vars

(***************************************************************************)
(* Properties of updateAppliedTransform.                                   *)
(***************************************************************************)
\* Two finite numbers that differ by at most 1e-4.
Near(p, q) ==
    IsFinite(p) /\ IsFinite(q) /\ ~RGreater(RAbs(RSub(p, q)), <<1, 10000>>)

Fields == {"x", "y", "rotation", "scaleX", "scaleY", "shearX", "shearY"}

NearTransform(s, t) == \A f \in Fields : Near(s[f], t[f])

NonSingular(pm) == Determinant(pm) # R(0)

\* This step is updateAppliedTransform() on bone b, and the step before it was
\* updateWorldTransform() on b.
RoundTrip(b) ==
    /\ last.op = "updateWorldTransform" /\ last.bone = b
    /\ last'.op = "updateAppliedTransform" /\ last'.bone = b

RoundTripBone(b) ==
    IF Parent(b) = Null
    THEN /\ EffScaleX(skel) = R(1) /\ EffScaleY(skel, yDown) = R(1)
         /\ skel.x = R(0) /\ skel.y = R(0)
    ELSE boneData[b].transformMode = "Normal" /\ NonSingular(matrix[Parent(b)])

\* The local transforms the applied transform can represent: no shear, scaleX above
\* 0.0001, scaleY positive, rotation strictly between -180 and 180.
RoundTripPose(t) ==
    /\ t.shearX = R(0) /\ t.shearY = R(0)
    /\ RGreater(t.scaleX, <<1, 10000>>) /\ RGreater(t.scaleY, R(0))
    /\ RGreater(t.rotation, R(-180)) /\ RLess(t.rotation, R(180))

FiniteMatrix(m) ==
    /\ IsFinite(m.a) /\ IsFinite(m.b) /\ IsFinite(m.c) /\ IsFinite(m.d)
    /\ IsFinite(m.tx) /\ IsFinite(m.ty)

FiniteTransform(t) == \A f \in Fields : IsFinite(t[f])

\* The last operation ran on a bone whose parent's world matrix has determinant 0,
\* the skeleton scale being non-zero.
UnderSingularParent ==
    /\ last.op \in {"updateWorldTransform", "updateAppliedTransform"}
    /\ Parent(last.bone) # Null
    /\ Determinant(matrix[Parent(last.bone)]) = R(0)
    /\ skel.scaleX # R(0) /\ skel.scaleY # R(0)

\* C12: under a parent whose world matrix has determinant 0, updateWorldTransformWith
\* in every TransformMode and updateAppliedTransform complete with only finite
\* values in the world matrix and in the applied transform.
C12_FiniteUnderSingularParent ==
    UnderSingularParent =>
        FiniteMatrix(matrix[last.bone]) /\ FiniteTransform(applied[last.bone])

\* The part of C12 about the world matrix alone.
WorldFiniteUnderSingularParent ==
    UnderSingularParent => FiniteMatrix(matrix[last.bone])


(***************************************************************************)
(* The rigs: every SkeletonData within the bounds.  A bone's parent is     *)
(* declared before it; a path constraint targets a slot; a skin maps each  *)
(* slot to a dictionary of attachments, so a rig without slots has neither *)
(* path constraints nor skins.                                             *)
(***************************************************************************)
NumBones == 3           \* bones of a rig
MaxConstraints == 2     \* constraints of a rig, of all three kinds together
MaxChain == 2           \* bones a constraint affects
MaxSlots == 1           \* slots of a rig
MaxSkins == 2           \* skins of a rig
MaxSize == 3            \* affected bones of all constraints plus skins

BoneIds == 0..(NumBones - 1)

ParentMaps ==
    {p \in [BoneIds -> {Null} \cup BoneIds] :
        \A b \in BoneIds : IF b = 0 THEN p[b] = Null ELSE p[b] \in 0..(b - 1)}

BoneLists == UNION {[1..n -> BoneIds] : n \in 1..MaxChain}

\* order values: the positions 0..n-1 of a rig of n constraints, and one beyond.
Orders == 0..MaxConstraints

IkData == [order : Orders, target : BoneIds, bones : BoneLists]

TransformData == [order : Orders, target : BoneIds, bones : BoneLists, local : BOOLEAN]

PathData == [order : Orders, target : 1..MaxSlots, bones : BoneLists]

\* slotData.attachmentName == null, as a string
NoName == ""

SlotData == [bone : BoneIds, attachmentName : {NoName, "p"}]

\* A region attachment, a path attachment bound to the slot bone (bones == null),
\* and path attachments weighted to one bone.
Attachments ==
    {[name |-> "p", type |-> "region", weighted |-> FALSE, bones |-> <<>>],
     [name |-> "p", type |-> "path", weighted |-> FALSE, bones |-> <<>>]}
    \cup {[name |-> "p", type |-> "path", weighted |-> TRUE, bones |-> <<1, b>>] :
             b \in BoneIds}

Dictionaries == {<<>>} \cup {<<a>> : a \in Attachments}

SkinData(nslots) == [name : {"default", "a"}, attachments : [1..nslots -> Dictionaries]]

SkinNames == {"default", "a", "missing"}

SeqsUpTo(S, k) == UNION {[1..n -> S] : n \in 0..k}

RECURSIVE ChainLength(_)
ChainLength(cs) == IF cs = <<>> THEN 0 ELSE Len(Head(cs).bones) + ChainLength(Tail(cs))

\* if (skin.name == "default") skeletonData.defaultSkin = skin
DefaultSkinOf(sks) ==
    IF \E i \in 1..Len(sks) : sks[i].name = "default"
    THEN CHOOSE i \in 1..Len(sks) :
            sks[i].name = "default" /\ \A j \in (i + 1)..Len(sks) : sks[j].name # "default"
    ELSE Null

\* A rig has the slot its path constraints target, and no other.
SlotLists(ps) == IF ps = <<>> THEN {<<>>} ELSE [1..MaxSlots -> SlotData]

\* The skins a rig may carry: those that fit MaxSize, and none unless a path
\* constraint is the only constraint.
SkinRoom(iks, ts, ps) ==
    IF Len(ps) = 1 /\ iks = <<>> /\ ts = <<>>
    THEN IF MaxSize - ChainLength(ps) < MaxSkins THEN MaxSize - ChainLength(ps) ELSE MaxSkins
    ELSE 0

SetupPose == Transform(0, 0, 0, 1, 1, 0, 0)

(***************************************************************************)
(* Skeleton: skins and slot attachments.                                   *)
(***************************************************************************)
\* The key of the first attachment called name in a skin's dictionary, or 0.
KeyOf(dictionary, name) ==
    IF \E k \in 1..Len(dictionary) : dictionary[k].name = name
    THEN CHOOSE k \in 1..Len(dictionary) :
            dictionary[k].name = name /\ \A j \in 1..(k - 1) : dictionary[j].name # name
    ELSE 0

\* Skin.getAttachment(slotIndex, name)
SkinGetAttachment(sk, slotIndex, name) ==
    IF KeyOf(skins[sk].attachments[slotIndex], name) # 0
    THEN [skin |-> sk, key |-> KeyOf(skins[sk].attachments[slotIndex], name)]
    ELSE NoAttachment

\* Skeleton.getAttachment(slotIndex, attachmentName) with active skin sk
getAttachment(sk, slotIndex, name) ==
    IF sk # Null /\ SkinGetAttachment(sk, slotIndex, name) # NoAttachment
    THEN SkinGetAttachment(sk, slotIndex, name)
    ELSE IF defaultSkin # Null THEN SkinGetAttachment(defaultSkin, slotIndex, name)
    ELSE NoAttachment

\* new Slot(slotData, bone): the setup attachment, looked up while no skin is active.
SetupAttachment(slotIndex) ==
    IF slots[slotIndex].attachmentName = NoName THEN NoAttachment
    ELSE getAttachment(Null, slotIndex, slots[slotIndex].attachmentName)

\* newSkin.attachAll(this, oldSkin), for one slot: a slot showing an attachment of
\* the old skin shows the new skin's attachment of that name, absent if there is none.
AttachAll(atts, newSkin, oldSkin, slotIndex) ==
    IF atts[slotIndex] # NoAttachment /\ atts[slotIndex].skin = oldSkin
    THEN SkinGetAttachment(newSkin, slotIndex,
             skins[oldSkin].attachments[slotIndex][atts[slotIndex].key].name)
    ELSE atts[slotIndex]

\* The loop of setSkin when there was no old skin, for one slot.
AttachSetup(atts, newSkin, slotIndex) ==
    IF slots[slotIndex].attachmentName # NoName
       /\ SkinGetAttachment(newSkin, slotIndex, slots[slotIndex].attachmentName) # NoAttachment
    THEN SkinGetAttachment(newSkin, slotIndex, slots[slotIndex].attachmentName)
    ELSE atts[slotIndex]

SetSkinAttachments_SetupOnly(atts, oldSkin, newSkin) ==
    IF newSkin = Null THEN atts
    ELSE [s \in DOMAIN atts |-> AttachSetup(atts, newSkin, s)]

\* The slot attachments setSkin(newSkin) leaves.
SetSkinAttachments(atts, oldSkin, newSkin) ==
    IF newSkin = Null THEN atts
    ELSE IF oldSkin # Null
    THEN [s \in DOMAIN atts |-> AttachAll(atts, newSkin, oldSkin, s)]
    ELSE [s \in DOMAIN atts |-> AttachSetup(atts, newSkin, s)]

\* data.findSkin(skinName): the first skin of that name, or Null.
findSkin(name) ==
    IF \E i \in 1..Len(skins) : skins[i].name = name
    THEN CHOOSE i \in 1..Len(skins) :
            skins[i].name = name /\ \A j \in 1..(i - 1) : skins[j].name # name
    ELSE Null

SkeletonOp(op, arg) == [op |-> op, bone |-> Null, args |-> arg]

\* this.updateCache(): the cache, the reset list and the sorted flags are rebuilt;
\* a TypeError leaves what had been built when it was thrown.
RunUpdateCache(st, op) ==
    /\ _updateCache' = st.cache
    /\ updateCacheReset' = st.reset
    /\ sorted' = st.sorted
    /\ pc' = IF st.ok THEN "ready" ELSE "raised"
    /\ last' = SkeletonOp(op, Null)

Construct ==
    /\ pc = "data"
    /\ attachment' = [s \in DOMAIN slots |-> SetupAttachment(s)]
    /\ RunUpdateCache(UpdateCacheOf(Null, [s \in DOMAIN slots |-> SetupAttachment(s)]),
                      "constructor")
    /\ UNCHANGED <<rigVars, skin, poseVars, skel, envVars>>

updateCache ==
    /\ pc = "ready"
    /\ RunUpdateCache(UpdateCacheOf(skin, attachment), "updateCache")
    /\ UNCHANGED <<rigVars, skin, attachment, poseVars, skel, envVars>>

SetSkinTo(newSkin, op) ==
    /\ attachment' = SetSkinAttachments(attachment, skin, newSkin)
    /\ skin' = newSkin
    /\ last' = SkeletonOp(op, newSkin)
    /\ UNCHANGED <<rigVars, cacheVars, poseVars, skel, envVars, pc>>

setSkin ==
    /\ pc = "ready"
    /\ \E newSkin \in {Null} \cup (1..Len(skins)) : SetSkinTo(newSkin, "setSkin")

\* throw new Error("Skin not found: " + skinName): nothing is changed.
SkinNotFound ==
    /\ last' = SkeletonOp("Skin not found", Null)
    /\ UNCHANGED <<rigVars, skin, attachment, cacheVars, poseVars, skel, envVars, pc>>

setSkinByName ==
    /\ pc = "ready"
    /\ \E skinName \in SkinNames :
          IF findSkin(skinName) = Null THEN SkinNotFound
          ELSE SetSkinTo(findSkin(skinName), "setSkinByName")


(***************************************************************************)
(* The scheduler and the skin switch on every rig within the bounds.       *)
(***************************************************************************)
Init ==
    /\ \E p \in ParentMaps :
          boneData = [b \in BoneIds |->
                         [parent |-> p[b], transformMode |-> "Normal", pose |-> SetupPose]]
    /\ \E iks \in SeqsUpTo(IkData, MaxConstraints) :
          /\ ChainLength(iks) <= MaxSize
          /\ ikConstraints = iks
          /\ \E ts \in SeqsUpTo(TransformData, MaxConstraints - Len(iks)) :
                /\ ChainLength(iks) + ChainLength(ts) <= MaxSize
                /\ transformConstraints = ts
                /\ \E ps \in SeqsUpTo(PathData, MaxConstraints - Len(iks) - Len(ts)) :
                      /\ ChainLength(iks) + ChainLength(ts) + ChainLength(ps) <= MaxSize
                      /\ pathConstraints = ps
                      /\ \E sl \in SlotLists(ps) :
                            /\ slots = sl
                            /\ \E sks \in SeqsUpTo(SkinData(Len(sl)),
                                                   SkinRoom(iks, ts, ps)) :
                                  /\ skins = sks
                                  /\ defaultSkin = DefaultSkinOf(sks)
    /\ names = NamesByIndex
    /\ animations = <<>>
    /\ skin = Null
    /\ attachment = [s \in DOMAIN slots |-> NoAttachment]
    /\ sorted = [b \in BoneIds |-> FALSE]
    /\ _updateCache = <<>>
    /\ updateCacheReset = <<>>
    /\ pc = "data"
    /\ local = [b \in BoneIds |-> SetupPose]
    /\ applied = [b \in BoneIds |-> ZeroTransform]
    /\ matrix = [b \in BoneIds |-> IdentityMatrix]
    /\ skel = [scaleX |-> R(1), scaleY |-> R(1), x |-> R(0), y |-> R(0)]
    /\ yDown = FALSE
    /\ deprecatedWarning1 = FALSE
    /\ linkedMeshes = <<>>
    /\ decoder = Idle
    /\ last = NoOp

Next ==
    \/ Construct
    \/ updateCache
    \/ setSkin
    \/ setSkinByName

Spec == Init /\ [][Next]_vars


(***************************************************************************)
(* Properties of the scheduler.                                            *)
(***************************************************************************)
\* updateCache() has completed, in the constructor or called on its own, and
\* nothing has run since.
CacheComputed == pc = "ready" /\ last.op \in {"constructor", "updateCache"}

Positions == DOMAIN _updateCache

IsBoneAt(k) == _updateCache[k].kind = "bone"

OccursBefore(b, k) == \E j \in 1..(k - 1) : _updateCache[j] = BoneEntry(b)

Range(bs) == {bs[i] : i \in DOMAIN bs}

InReset(b) == b \in Range(updateCacheReset)

\* The constraint entry e computes the world transform of bone b itself, without
\* b being updated as a cache entry: an IK constraint does so for its last bone,
\* a local transform constraint for every bone it affects.
Writes(e, b) ==
    \/ e.kind = "ik" /\ Last(ikConstraints[e.index].bones) = b
    \/ /\ e.kind = "transform"
       /\ transformConstraints[e.index].local
       /\ b \in Range(transformConstraints[e.index].bones)

WrittenBefore(b, k) == InReset(b) /\ \E j \in 1..(k - 1) : Writes(_updateCache[j], b)

ComputedBefore(b, k) == OccursBefore(b, k) \/ WrittenBefore(b, k)

\* The bones a constraint entry reads when it is solved.
Reads(e) ==
    CASE e.kind = "ik" ->
            {ikConstraints[e.index].target, ikConstraints[e.index].bones[1]}
      [] e.kind = "transform" /\ ~transformConstraints[e.index].local ->
            {transformConstraints[e.index].target}
                \cup Range(transformConstraints[e.index].bones)
      [] e.kind = "transform" /\ transformConstraints[e.index].local ->
            {transformConstraints[e.index].target}
                \cup {Parent(b) : b \in Range(transformConstraints[e.index].bones)}
      [] e.kind = "path" -> Range(pathConstraints[e.index].bones)

\* C1 as stated: every occurrence of a non-root bone in _updateCache has its
\* parent at a strictly smaller index.
C1_Original ==
    CacheComputed =>
        \A k \in Positions :
            (IsBoneAt(k) /\ Parent(_updateCache[k].index) # Null)
                => OccursBefore(Parent(_updateCache[k].index), k)

\* C1: after updateCache(), for every occurrence of a non-root bone in _updateCache,
\* either its parent occurs at a strictly smaller index, or the parent is in
\* updateCacheReset and a constraint that computes the parent itself (an IK
\* constraint whose last bone it is, a local transform constraint affecting it)
\* occurs at a strictly smaller index.
C1_Amended ==
    CacheComputed =>
        \A k \in Positions :
            (IsBoneAt(k) /\ Parent(_updateCache[k].index) # Null)
                => ComputedBefore(Parent(_updateCache[k].index), k)

\* A bone is in the cache whose parent is not: the parent is computed by a constraint.
C1_Witness ==
    /\ CacheComputed
    /\ \E k \in Positions :
          /\ IsBoneAt(k)
          /\ Parent(_updateCache[k].index) # Null
          /\ ~InCache(_updateCache, BoneEntry(Parent(_updateCache[k].index)))
          /\ WrittenBefore(Parent(_updateCache[k].index), k)

\* C2 as stated: every constraint in _updateCache is preceded by an occurrence of
\* its target bone and of every bone it reads.
C2_Original ==
    CacheComputed =>
        \A k \in Positions :
            ~IsBoneAt(k) => \A b \in Reads(_updateCache[k]) : OccursBefore(b, k)

\* C2: after updateCache(), every constraint in _updateCache is preceded, for its
\* target bone and every bone it reads, by an occurrence of that bone or, the bone
\* being in updateCacheReset, by a constraint that computes that bone itself.
C2_Amended ==
    CacheComputed =>
        \A k \in Positions :
            ~IsBoneAt(k) => \A b \in Reads(_updateCache[k]) : ComputedBefore(b, k)

\* A constraint is in the cache whose target occurs nowhere before it: an earlier
\* constraint computes the target.
C2_Witness ==
    /\ CacheComputed
    /\ \E k \in Positions :
          /\ ~IsBoneAt(k)
          /\ \E b \in Reads(_updateCache[k]) : ~OccursBefore(b, k) /\ WrittenBefore(b, k)

\* C3 as stated: every bone occurs at least once in _updateCache.
C3_Original == CacheComputed => \A b \in Bones : InCache(_updateCache, BoneEntry(b))

\* C3: after updateCache(), every bone occurs in _updateCache, or it is in
\* updateCacheReset and a constraint in _updateCache computes it.
C3_Amended ==
    CacheComputed =>
        \A b \in Bones :
            \/ InCache(_updateCache, BoneEntry(b))
            \/ InReset(b) /\ \E k \in Positions : Writes(_updateCache[k], b)

\* The last bone of a two-bone IK constraint is in updateCacheReset only.
C3_Witness ==
    /\ CacheComputed
    /\ \E b \in Bones :
          /\ ~InCache(_updateCache, BoneEntry(b))
          /\ InReset(b)
          /\ \E i \in DOMAIN ikConstraints :
                Len(ikConstraints[i].bones) = 2 /\ Last(ikConstraints[i].bones) = b

ConstraintEntries ==
    {[kind |-> "ik", index |-> i] : i \in DOMAIN ikConstraints}
        \cup {[kind |-> "transform", index |-> i] : i \in DOMAIN transformConstraints}
        \cup {[kind |-> "path", index |-> i] : i \in DOMAIN pathConstraints}

OrderOf(e) ==
    CASE e.kind = "ik" -> ikConstraints[e.index].order
      [] e.kind = "transform" -> transformConstraints[e.index].order
      [] e.kind = "path" -> pathConstraints[e.index].order

DistinctOrders ==
    \A e1, e2 \in ConstraintEntries : e1 # e2 => OrderOf(e1) # OrderOf(e2)

Occurrences(e) == Cardinality({k \in Positions : _updateCache[k] = e})

EachConstraintOnce == \A e \in ConstraintEntries : Occurrences(e) = 1

\* C4 as stated: pairwise distinct order values make every constraint occur
\* exactly once in _updateCache.
C4_Original == (CacheComputed /\ DistinctOrders) => EachConstraintOnce

\* C4: if the order values of the n constraints are pairwise distinct and each is
\* one of 0..n-1, then after updateCache() every constraint occurs exactly once in
\* _updateCache.
C4_Amended ==
    (/\ CacheComputed
     /\ DistinctOrders
     /\ \A e \in ConstraintEntries : OrderOf(e) \in 0..(constraintCount - 1))
        => EachConstraintOnce

\* An IK constraint of order 1 and a transform constraint of order 0: the
\* transform constraint runs first.
C4_Witness ==
    /\ CacheComputed
    /\ Len(ikConstraints) = 1 /\ ikConstraints[1].order = 1
    /\ Len(transformConstraints) = 1 /\ transformConstraints[1].order = 0
    /\ \E j, k \in Positions :
          /\ j < k
          /\ _updateCache[j] = [kind |-> "transform", index |-> 1]
          /\ _updateCache[k] = [kind |-> "ik", index |-> 1]

\* C5: after setSkin(newSkin) or setSkinByName(name), _updateCache and
\* updateCacheReset are what updateCache() computes with the new active skin.
C5_CacheFollowsSkin ==
    (pc = "ready" /\ last.op \in {"setSkin", "setSkinByName"}) =>
        /\ _updateCache = UpdateCacheOf(skin, attachment).cache
        /\ updateCacheReset = UpdateCacheOf(skin, attachment).reset

\* the IK constraints in _updateCache that have more than one affected bone
ChainIkPositions ==
    {k \in Positions : /\ _updateCache[k].kind = "ik"
                       /\ Len(ikConstraints[_updateCache[k].index].bones) > 1}

LastAffected(k) == Last(ikConstraints[_updateCache[k].index].bones)

\* C19 as stated: after updateCache(), the last affected bone of every IK
\* constraint in _updateCache with more than one affected bone is in
\* updateCacheReset.
C19_Original == CacheComputed => \A k \in ChainIkPositions : InReset(LastAffected(k))

\* C19: after updateCache(), the last affected bone of every IK constraint in
\* _updateCache with more than one affected bone is in updateCacheReset or occurs
\* in _updateCache before the constraint.
C19_Amended ==
    CacheComputed =>
        \A k \in ChainIkPositions : InReset(LastAffected(k)) \/ OccursBefore(LastAffected(k), k)

\* An IK constraint on a bone and its child, the child put in _updateCache by a
\* constraint of a smaller order and absent from updateCacheReset.
C19_Witness ==
    /\ CacheComputed
    /\ \E k \in ChainIkPositions :
          /\ ~InReset(LastAffected(k))
          /\ OccursBefore(LastAffected(k), k)
          /\ Parent(LastAffected(k)) = ikConstraints[_updateCache[k].index].bones[1]


(***************************************************************************)
(* Skeleton: the queries by name.                                          *)
(***************************************************************************)
\* for (let i = 0, n = array.length; i < n; i++) if (array[i].data.name == name) return i;
\* the index the loop returns over the indices start..(end - 1), Null when it runs out.
RECURSIVE FindFrom_Last(_, _, _, _)
FindFrom_Last(ns, name, start, end) ==
    IF start >= end THEN Null
    ELSE IF ns[end - 1] = name THEN end - 1
    ELSE FindFrom_Last(ns, name, start, end - 1)

RECURSIVE FindFrom(_, _, _, _)
FindFrom(ns, name, start, end) ==
    IF start >= end THEN Null
    ELSE IF ns[start] = name THEN start
    ELSE FindFrom(ns, name, start + 1, end)

\* The bones array starts at index 0 and the other arrays at index 1 in this module.
FindInBones(name) == FindFrom(names.bones, name, 0, Cardinality(Bones))

FindInArray(ns, name) == FindFrom(ns, name, 1, Len(ns) + 1)

\* What a query leaves: the element or index found (Null for null and for -1), or
\* the error thrown for a null name.
Query(op, name, found) ==
    /\ last' = [op |-> op, bone |-> Null,
                args |-> [name |-> name, raised |-> name = NoName,
                          found |-> IF name = NoName THEN Null ELSE found]]
    /\ UNCHANGED <<rigVars, skin, attachment, cacheVars, poseVars, skel, envVars, pc>>

\* The names asked for: null, a name in use and a name no element has.
QueryNames == {NoName, "a", "z"}

findBone ==
    pc = "ready" /\ \E boneName \in QueryNames : Query("findBone", boneName, FindInBones(boneName))

findBoneIndex ==
    pc = "ready" /\ \E boneName \in QueryNames :
                       Query("findBoneIndex", boneName, FindInBones(boneName))

findSlot ==
    pc = "ready" /\ \E slotName \in QueryNames :
                       Query("findSlot", slotName, FindInArray(names.slots, slotName))

findSlotIndex ==
    pc = "ready" /\ \E slotName \in QueryNames :
                       Query("findSlotIndex", slotName, FindInArray(names.slots, slotName))

findIkConstraint ==
    pc = "ready" /\ \E constraintName \in QueryNames :
                       Query("findIkConstraint", constraintName,
                             FindInArray(names.ikConstraints, constraintName))

findTransformConstraint ==
    pc = "ready" /\ \E constraintName \in QueryNames :
                       Query("findTransformConstraint", constraintName,
                             FindInArray(names.transformConstraints, constraintName))

findPathConstraint ==
    pc = "ready" /\ \E constraintName \in QueryNames :
                       Query("findPathConstraint", constraintName,
                             FindInArray(names.pathConstraints, constraintName))

\* The rigs the queries run on: a chain of bones, constraints of each kind with one
\* bone each and orders that differ, the slots, and names that may repeat.
NumSlots == 2

ElementNames == {"a", "b"}

ChainBones ==
    [b \in BoneIds |-> [parent |-> IF b = 0 THEN Null ELSE b - 1,
                        transformMode |-> "Normal", pose |-> SetupPose]]

FindInit ==
    /\ boneData = ChainBones
    /\ \E k1 \in 0..MaxConstraints, k2 \in 0..MaxConstraints, k3 \in 0..MaxConstraints :
          /\ k1 + k2 + k3 <= MaxConstraints
          /\ ikConstraints = [i \in 1..k1 |-> [order |-> i - 1, target |-> 0, bones |-> <<1>>]]
          /\ transformConstraints =
                [i \in 1..k2 |-> [order |-> k1 + i - 1, target |-> 0, bones |-> <<1>>,
                                  local |-> FALSE]]
          /\ pathConstraints =
                [i \in 1..k3 |-> [order |-> k1 + k2 + i - 1, target |-> 1, bones |-> <<1>>]]
          /\ \E n \in (IF k3 = 0 THEN {0} ELSE {}) \cup {NumSlots} :
                slots = [i \in 1..n |-> [bone |-> 0, attachmentName |-> NoName]]
    /\ names \in [bones : [BoneIds -> ElementNames],
                  slots : [DOMAIN slots -> ElementNames],
                  ikConstraints : [DOMAIN ikConstraints -> ElementNames],
                  transformConstraints : [DOMAIN transformConstraints -> ElementNames],
                  pathConstraints : [DOMAIN pathConstraints -> ElementNames]]
    /\ skins = <<>> /\ defaultSkin = Null /\ skin = Null
    /\ animations = <<>>
    /\ attachment = [s \in DOMAIN slots |-> NoAttachment]
    /\ sorted = [b \in BoneIds |-> FALSE]
    /\ _updateCache = <<>>
    /\ updateCacheReset = <<>>
    /\ pc = "data"
    /\ local = [b \in BoneIds |-> SetupPose]
    /\ applied = [b \in BoneIds |-> ZeroTransform]
    /\ matrix = [b \in BoneIds |-> IdentityMatrix]
    /\ skel = [scaleX |-> R(1), scaleY |-> R(1), x |-> R(0), y |-> R(0)]
    /\ yDown = FALSE
    /\ deprecatedWarning1 = FALSE
    /\ linkedMeshes = <<>>
    /\ decoder = Idle
    /\ last = NoOp

FindNext ==
    \/ Construct
    \/ findBone
    \/ findBoneIndex
    \/ findSlot
    \/ findSlotIndex
    \/ findIkConstraint
    \/ findTransformConstraint
    \/ findPathConstraint

FindSpec == FindInit /\ [][FindNext]_vars


(***************************************************************************)
(* Properties of the queries by name.                                      *)
(***************************************************************************)
QueryOps ==
    {"findBone", "findBoneIndex", "findSlot", "findSlotIndex", "findIkConstraint",
     "findTransformConstraint", "findPathConstraint"}

\* The names of the array a query searches.
Searched(op) ==
    CASE op \in {"findBone", "findBoneIndex"} -> names.bones
      [] op \in {"findSlot", "findSlotIndex"} -> names.slots
      [] op = "findIkConstraint" -> names.ikConstraints
      [] op = "findTransformConstraint" -> names.transformConstraints
      [] op = "findPathConstraint" -> names.pathConstraints

Matching(op, name) == {i \in DOMAIN Searched(op) : Searched(op)[i] = name}

\* a query for a name that is not null has just returned
Answered == last.op \in QueryOps /\ last.args.name # NoName

FirstMatch ==
    IF Matching(last.op, last.args.name) = {} THEN last.args.found = Null
    ELSE /\ last.args.found \in Matching(last.op, last.args.name)
         /\ \A i \in Matching(last.op, last.args.name) : last.args.found <= i

\* C14: a query (findBone, findBoneIndex, findSlot, findSlotIndex, findIkConstraint,
\* findTransformConstraint, findPathConstraint) for a name that is not null returns
\* null or -1 when no element of its array has the name and the first element in
\* array order that has it otherwise, does not raise, and changes nothing of the
\* skeleton.
C14_QueryFindsFirst ==
    [][Answered' =>
          /\ FirstMatch'
          /\ ~last'.args.raised
          /\ UNCHANGED <<rigVars, skin, attachment, cacheVars, poseVars, skel, envVars, pc>>]_vars

\* a query has returned one of two elements that carry the name asked for, in a rig
\* where a query for "z" finds nothing
C14_Witness ==
    /\ Answered
    /\ Cardinality(Matching(last.op, last.args.name)) >= 2
    /\ last.args.found \in Matching(last.op, last.args.name)
    /\ \E op \in QueryOps : DOMAIN Searched(op) # {} /\ Matching(op, "z") = {}


(***************************************************************************)
(* Skeleton: setAttachment, on rigs of slots and skins.                    *)
(***************************************************************************)
\* What the body of the loop leaves for the slot found: the attachments, and whether
\* "Attachment not found" was thrown.
SetAttachmentOf_ClearsFirst(atts, slotIndex, attachmentName) ==
    [atts |-> [atts EXCEPT ![slotIndex] = IF attachmentName = NoName
                                           THEN NoAttachment
                                           ELSE getAttachment(skin, slotIndex, attachmentName)],
     raised |-> attachmentName # NoName
                /\ getAttachment(skin, slotIndex, attachmentName) = NoAttachment]

SetAttachmentOf(atts, slotIndex, attachmentName) ==
    IF attachmentName = NoName
    THEN [atts |-> [atts EXCEPT ![slotIndex] = NoAttachment], raised |-> FALSE]
    ELSE IF getAttachment(skin, slotIndex, attachmentName) = NoAttachment
    THEN [atts |-> atts, raised |-> TRUE]
    ELSE [atts |-> [atts EXCEPT ![slotIndex] = getAttachment(skin, slotIndex, attachmentName)],
          raised |-> FALSE]

\* setAttachment(slotName, attachmentName): "slotName cannot be null." and
\* "Slot not found" are thrown with nothing assigned.
SetAttachment(atts, slotName, attachmentName) ==
    IF slotName = NoName \/ FindInArray(names.slots, slotName) = Null
    THEN [atts |-> atts, raised |-> TRUE]
    ELSE SetAttachmentOf(atts, FindInArray(names.slots, slotName), attachmentName)

AttachmentNames == {NoName, "p", "q"}

setAttachment ==
    /\ pc = "ready"
    /\ \E slotName \in QueryNames, attachmentName \in AttachmentNames :
          /\ attachment' = SetAttachment(attachment, slotName, attachmentName).atts
          /\ last' = [op |-> "setAttachment", bone |-> Null,
                      args |-> [slotName |-> slotName, attachmentName |-> attachmentName,
                                raised |-> SetAttachment(attachment, slotName,
                                                         attachmentName).raised]]
    /\ UNCHANGED <<rigVars, skin, cacheVars, poseVars, skel, envVars, pc>>

Region(name) == [name |-> name, type |-> "region", weighted |-> FALSE, bones |-> <<>>]

\* A skin has the attachment "p" for a slot or has none; no skin has a "q".
RegionDictionaries == {<<>>, <<Region("p")>>}

SlotSkins == [name : {"default", "a"}, attachments : [1..NumSlots -> RegionDictionaries]]

SlotInit ==
    /\ boneData = ChainBones
    /\ ikConstraints = <<>> /\ transformConstraints = <<>> /\ pathConstraints = <<>>
    /\ slots \in [1..NumSlots -> [bone : {0}, attachmentName : {NoName, "p"}]]
    /\ \E ns \in [1..NumSlots -> ElementNames] : names = [NamesByIndex EXCEPT !.slots = ns]
    /\ skins \in SeqsUpTo(SlotSkins, MaxSkins)
    /\ defaultSkin = DefaultSkinOf(skins)
    /\ animations = <<>>
    /\ skin = Null
    /\ attachment = [s \in DOMAIN slots |-> NoAttachment]
    /\ sorted = [b \in BoneIds |-> FALSE]
    /\ _updateCache = <<>>
    /\ updateCacheReset = <<>>
    /\ pc = "data"
    /\ local = [b \in BoneIds |-> SetupPose]
    /\ applied = [b \in BoneIds |-> ZeroTransform]
    /\ matrix = [b \in BoneIds |-> IdentityMatrix]
    /\ skel = [scaleX |-> R(1), scaleY |-> R(1), x |-> R(0), y |-> R(0)]
    /\ yDown = FALSE
    /\ deprecatedWarning1 = FALSE
    /\ linkedMeshes = <<>>
    /\ decoder = Idle
    /\ last = NoOp

SlotNext ==
    \/ Construct
    \/ setSkin
    \/ setAttachment

SlotSpec == SlotInit /\ [][SlotNext]_vars


(***************************************************************************)
(* Properties of setAttachment and setSkin.                                *)
(***************************************************************************)
SlotsNamed(slotName) == {i \in DOMAIN slots : names.slots[i] = slotName}

\* the slot setAttachment acts on: the first one of that name
SlotNamed(slotName) == CHOOSE i \in SlotsNamed(slotName) : \A j \in SlotsNamed(slotName) : i <= j

HasAttachment(sk, slotIndex, name) ==
    /\ sk # Null
    /\ \E k \in DOMAIN skins[sk].attachments[slotIndex] :
          skins[sk].attachments[slotIndex][k].name = name

\* C13: setAttachment(slotName, attachmentName) raises when no slot is named
\* slotName, and when attachmentName is not null and neither the active skin nor
\* the default skin has an attachment of that name for the slot; when it raises, no
\* slot's attachment has changed; with a null attachmentName and a slot of that name
\* it makes that slot's attachment null and changes no other slot's.
C13_SetAttachment ==
    [][last'.op = "setAttachment" =>
          /\ SlotsNamed(last'.args.slotName) = {} => last'.args.raised
          /\ ( /\ SlotsNamed(last'.args.slotName) # {}
               /\ last'.args.attachmentName # NoName
               /\ ~HasAttachment(skin, SlotNamed(last'.args.slotName),
                                 last'.args.attachmentName)
               /\ ~HasAttachment(defaultSkin, SlotNamed(last'.args.slotName),
                                 last'.args.attachmentName) )
             => last'.args.raised
          /\ last'.args.raised => attachment' = attachment
          /\ ( /\ SlotsNamed(last'.args.slotName) # {}
               /\ last'.args.attachmentName = NoName )
             => /\ ~last'.args.raised
                /\ attachment'[SlotNamed(last'.args.slotName)] = NoAttachment
                /\ \A s \in DOMAIN slots \ {SlotNamed(last'.args.slotName)} :
                      attachment'[s] = attachment[s]
          /\ pc' = pc]_vars

\* setAttachment has raised "Attachment not found" for a slot that shows an
\* attachment, in a skeleton where another slot shows one too
C13_Witness ==
    /\ last.op = "setAttachment"
    /\ last.args.raised
    /\ SlotsNamed(last.args.slotName) # {}
    /\ last.args.attachmentName # NoName
    /\ \A s \in DOMAIN slots : attachment[s] # NoAttachment

\* setAttachment has cleared one slot with a null attachmentName while another slot
\* shows an attachment
C13_WitnessCleared ==
    /\ last.op = "setAttachment"
    /\ ~last.args.raised
    /\ last.args.attachmentName = NoName
    /\ \E s \in DOMAIN slots : attachment[s] # NoAttachment

\* the name under which a slot's attachment is kept in its skin
AttachedName(s) == skins[attachment[s].skin].attachments[s][attachment[s].key].name

\* slot s shows an attachment of the active skin, and skin newSkin has none of that name
LosesAttachment(s, newSkin) ==
    /\ skin # Null
    /\ newSkin # Null
    /\ attachment[s] # NoAttachment
    /\ attachment[s].skin = skin
    /\ ~HasAttachment(newSkin, s, AttachedName(s))

DataFind(loaded, name) == FindFrom(loaded, name, 1, Len(loaded) + 1)

\* The bones loop: [ok, names, parents], parents as bone indices from 0.
RECURSIVE ReadBonesFrom(_, _)
ReadBonesFrom(maps, st) ==
    IF maps = <<>> \/ ~st.ok THEN st
    ELSE IF Head(maps).parent # NoName /\ DataFind(st.names, Head(maps).parent) = Null
    THEN [st EXCEPT !.ok = FALSE]
    ELSE ReadBonesFrom(Tail(maps),
             [st EXCEPT !.names = Append(@, Head(maps).name),
                        !.parents = Append(@, IF Head(maps).parent = NoName THEN Null
                                              ELSE DataFind(st.names, Head(maps).parent) - 1)])

ReadBones(root) == ReadBonesFrom(root.bones, [ok |-> TRUE, names |-> <<>>, parents |-> <<>>])

\* data.bones of a constraint: each name looked up, Null where findBone returns null
ReadConstraintBones(map, boneNames) ==
    [ii \in 1..Len(map.bones) |->
        IF DataFind(boneNames, map.bones[ii]) = Null THEN Null
        ELSE DataFind(boneNames, map.bones[ii]) - 1]

\* if (bone == null) throw new Error("... bone not found: " + boneName)
BoneNotFound(map, boneNames) ==
    \E ii \in 1..Len(map.bones) : DataFind(boneNames, map.bones[ii]) = Null

BoneTarget(map, boneNames) ==
    IF DataFind(boneNames, map.target) = Null THEN Null
    ELSE DataFind(boneNames, map.target) - 1

\* An IK constraint: data.target = skeletonData.findBone(constraintMap.target)
ReadIk(map, boneNames) ==
    [ok |-> ~BoneNotFound(map, boneNames),
     data |-> [order |-> map.order, target |-> BoneTarget(map, boneNames),
               bones |-> ReadConstraintBones(map, boneNames)]]

\* A transform constraint: "Transform constraint target bone not found"
ReadTransform(map, boneNames) ==
    [ok |-> ~BoneNotFound(map, boneNames) /\ BoneTarget(map, boneNames) # Null,
     data |-> [order |-> map.order, target |-> BoneTarget(map, boneNames),
               bones |-> ReadConstraintBones(map, boneNames), local |-> map.local]]

\* A path constraint: "Path target slot not found"
ReadPath(map, boneNames, slotNames) ==
    [ok |-> ~BoneNotFound(map, boneNames) /\ DataFind(slotNames, map.target) # Null,
     data |-> [order |-> map.order, target |-> DataFind(slotNames, map.target),
               bones |-> ReadConstraintBones(map, boneNames)]]

\* The slots loop: slotData.boneData = skeletonData.findBone(slotMap.bone)
ReadSlots(root, boneNames) ==
    [i \in 1..Len(root.slots) |->
        [bone |-> IF DataFind(boneNames, root.slots[i].bone) = Null THEN Null
                  ELSE DataFind(boneNames, root.slots[i].bone) - 1,
         attachmentName |-> root.slots[i].attachment]]

NamesOf(maps) == [i \in 1..Len(maps) |-> maps[i].name]

\* readSkeletonData(root) with the bones read: whether it returned, and the
\* SkeletonData it built.
ReadWithBones(root, bs) ==
    [ok |-> /\ bs.ok
            /\ \A i \in 1..Len(root.ik) : ReadIk(root.ik[i], bs.names).ok
            /\ \A i \in 1..Len(root.transform) : ReadTransform(root.transform[i], bs.names).ok
            /\ \A i \in 1..Len(root.path) :
                  ReadPath(root.path[i], bs.names, NamesOf(root.slots)).ok,
     boneData |-> [b \in 0..(Len(bs.parents) - 1) |->
                      [parent |-> bs.parents[b + 1], transformMode |-> "Normal",
                       pose |-> SetupPose]],
     slots |-> ReadSlots(root, bs.names),
     ikConstraints |-> [i \in 1..Len(root.ik) |-> ReadIk(root.ik[i], bs.names).data],
     transformConstraints |->
         [i \in 1..Len(root.transform) |-> ReadTransform(root.transform[i], bs.names).data],
     pathConstraints |->
         [i \in 1..Len(root.path) |->
             ReadPath(root.path[i], bs.names, NamesOf(root.slots)).data],
     names |-> [bones |-> [b \in 0..(Len(bs.names) - 1) |-> bs.names[b + 1]],
                slots |-> NamesOf(root.slots),
                ikConstraints |-> NamesOf(root.ik),
                transformConstraints |-> NamesOf(root.transform),
                pathConstraints |-> NamesOf(root.path)]]

ReadSkeletonData(root) == ReadWithBones(root, ReadBones(root))

\* The JSON documents: the bones "a", "b", ... with a parent loaded before them or
\* the name "z" no bone has, at most one slot "s", and constraints whose bones and
\* target are bones or slots of the document or "z".
JsonParents ==
    {p \in [1..NumBones -> {NoName, "z"} \cup {Letters[j] : j \in 1..NumBones}] :
        /\ p[1] = NoName
        /\ \A i \in 2..NumBones : p[i] \in {"z"} \cup {Letters[j] : j \in 1..(i - 1)}}

JsonBones == {[i \in 1..NumBones |-> [name |-> Letters[i], parent |-> p[i]]] : p \in JsonParents}

JsonSlots == {<<>>, <<[name |-> "s", bone |-> "a", attachment |-> NoName]>>}

JsonBoneLists == {<<"b">>, <<"b", "c">>, <<"z">>, <<"b", "z">>}

JsonOrders == {0, 1}

JsonIk == [name : {"a"}, order : JsonOrders, bones : JsonBoneLists, target : {"a", "z"}]

JsonTransform ==
    [name : {"a"}, order : JsonOrders, bones : JsonBoneLists, target : {"a", "z"},
     local : {FALSE}]

JsonPath == [name : {"a"}, order : JsonOrders, bones : JsonBoneLists, target : {"s", "z"}]

\* how many IK, transform and path constraints a document has
JsonCounts ==
    {k \in (0..MaxConstraints) \X (0..MaxConstraints) \X (0..MaxConstraints) :
        k[1] + k[2] + k[3] <= MaxConstraints}

Roots ==
    UNION {[bones : JsonBones, slots : JsonSlots, ik : [1..k[1] -> JsonIk],
            transform : [1..k[2] -> JsonTransform], path : [1..k[3] -> JsonPath]] :
           k \in JsonCounts}

readSkeletonData ==
    /\ pc = "json"
    /\ \E root \in Roots :
          /\ last' = [op |-> "readSkeletonData", bone |-> Null, args |-> root]
          /\ IF ReadSkeletonData(root).ok
             THEN /\ boneData' = ReadSkeletonData(root).boneData
                  /\ slots' = ReadSkeletonData(root).slots
                  /\ ikConstraints' = ReadSkeletonData(root).ikConstraints
                  /\ transformConstraints' = ReadSkeletonData(root).transformConstraints
                  /\ pathConstraints' = ReadSkeletonData(root).pathConstraints
                  /\ names' = ReadSkeletonData(root).names
                  /\ attachment' = [s \in 1..Len(root.slots) |-> NoAttachment]
                  /\ pc' = "data"
             ELSE /\ pc' = "raised"
                  /\ UNCHANGED <<boneData, slots, ikConstraints, transformConstraints,
                                 pathConstraints, names, attachment>>
    /\ UNCHANGED <<skins, defaultSkin, animations, skin, cacheVars, poseVars, skel, envVars>>

LoadInit ==
    /\ boneData = <<>>
    /\ ikConstraints = <<>> /\ transformConstraints = <<>> /\ pathConstraints = <<>>
    /\ slots = <<>> /\ skins = <<>> /\ defaultSkin = Null /\ skin = Null
    /\ names = NamesByIndex
    /\ animations = <<>>
    /\ attachment = <<>>
    /\ sorted = [b \in BoneIds |-> FALSE]
    /\ _updateCache = <<>>
    /\ updateCacheReset = <<>>
    /\ pc = "json"
    /\ local = [b \in BoneIds |-> SetupPose]
    /\ applied = [b \in BoneIds |-> ZeroTransform]
    /\ matrix = [b \in BoneIds |-> IdentityMatrix]
    /\ skel = [scaleX |-> R(1), scaleY |-> R(1), x |-> R(0), y |-> R(0)]
    /\ yDown = FALSE
    /\ deprecatedWarning1 = FALSE
    /\ linkedMeshes = <<>>
    /\ decoder = Idle
    /\ last = NoOp

LoadNext ==
    \/ readSkeletonData
    \/ Construct

LoadSpec == LoadInit /\ [][LoadNext]_vars


(***************************************************************************)
(* Properties of readSkeletonData.                                         *)
(***************************************************************************)
JsonBoneNames(root) == {root.bones[i].name : i \in 1..Len(root.bones)}

JsonSlotNames(root) == {root.slots[i].name : i \in 1..Len(root.slots)}

\* a constraint of the document names a target or an affected bone it does not have
DanglingReference(root) ==
    \/ \E i \in 1..Len(root.ik) :
          \/ root.ik[i].target \notin JsonBoneNames(root)
          \/ \E ii \in 1..Len(root.ik[i].bones) : root.ik[i].bones[ii] \notin JsonBoneNames(root)
    \/ \E i \in 1..Len(root.transform) :
          \/ root.transform[i].target \notin JsonBoneNames(root)
          \/ \E ii \in 1..Len(root.transform[i].bones) :
                root.transform[i].bones[ii] \notin JsonBoneNames(root)
    \/ \E i \in 1..Len(root.path) :
          \/ root.path[i].target \notin JsonSlotNames(root)
          \/ \E ii \in 1..Len(root.path[i].bones) :
                root.path[i].bones[ii] \notin JsonBoneNames(root)

StoredConstraints ==
    {ikConstraints[i] : i \in DOMAIN ikConstraints}
    \cup {transformConstraints[i] : i \in DOMAIN transformConstraints}
    \cup {pathConstraints[i] : i \in DOMAIN pathConstraints}

Loaded == last.op = "readSkeletonData"

\* C16: readSkeletonData raises and returns no SkeletonData whenever an IK, transform
\* or path constraint of the document names a target or an affected bone that does
\* not exist; no stored constraint has a null target or a null bone.
C16_DanglingReferenceRaises ==
    /\ (Loaded /\ DanglingReference(last.args)) => pc = "raised"
    /\ \A c \in StoredConstraints :
          c.target # Null /\ \A ii \in 1..Len(c.bones) : c.bones[ii] # Null

\* The same of the transform and path constraints and of the affected bones of
\* the IK constraints: what the loader does check.
LoaderChecks ==
    /\ (Loaded /\ last.args.ik = <<>> /\ DanglingReference(last.args)) => pc = "raised"
    /\ \A c \in StoredConstraints : \A ii \in 1..Len(c.bones) : c.bones[ii] # Null
    /\ \A i \in DOMAIN transformConstraints : transformConstraints[i].target # Null
    /\ \A i \in DOMAIN pathConstraints : pathConstraints[i].target # Null

\* C17: a rig in which two constraints have the same order value is rejected:
\* readSkeletonData or the Skeleton constructor raises, so no Skeleton is
\* constructed from it.
C17_DuplicateOrderRejected == pc = "ready" => DistinctOrders


(***************************************************************************)
(* SkeletonJson.readAnimation: the duration of an animation.               *)
(***************************************************************************)
MathMax_Greater(a, b) == IF RGreater(b, a) THEN b ELSE a

\* Math.max(a, b): NaN when either argument is NaN
MathMax(a, b) ==
    IF IsNaN(a) \/ IsNaN(b) THEN NaN
    ELSE IF RLess(a, b) THEN b ELSE a

\* for (...) duration = Math.max(duration, timelines[i].getDuration()), a timeline
\* being given by its duration
RECURSIVE DurationFrom(_, _)
DurationFrom(timelines, duration) ==
    IF timelines = <<>> THEN duration
    ELSE DurationFrom(Tail(timelines), MathMax(duration, Head(timelines)))

DurationOf(timelines) == DurationFrom(timelines, R(0))

MaxTimelines == 3

MaxAnimations == 2

\* The durations a timeline may report.
Durations == {NaN, R(-1), R(0), R(2)}

readAnimation ==
    /\ pc = "data"
    /\ Len(animations) < MaxAnimations
    /\ \E timelines \in SeqsUpTo(Durations, MaxTimelines) :
          /\ animations' = IF IsNaN(DurationOf(timelines)) THEN animations
                           ELSE Append(animations, DurationOf(timelines))
          /\ last' = [op |-> "readAnimation", bone |-> Null,
                      args |-> [timelines |-> timelines,
                                raised |-> IsNaN(DurationOf(timelines))]]
    /\ UNCHANGED <<boneData, ikConstraints, transformConstraints, pathConstraints, slots,
                   skins, defaultSkin, names, skin, attachment, cacheVars, poseVars, skel,
                   envVars, pc>>

AnimationInit ==
    /\ boneData = ChainBones
    /\ ikConstraints = <<>> /\ transformConstraints = <<>> /\ pathConstraints = <<>>
    /\ slots = <<>> /\ skins = <<>> /\ defaultSkin = Null /\ skin = Null
    /\ names = NamesByIndex
    /\ animations = <<>>
    /\ attachment = <<>>
    /\ sorted = [b \in BoneIds |-> FALSE]
    /\ _updateCache = <<>>
    /\ updateCacheReset = <<>>
    /\ pc = "data"
    /\ local = [b \in BoneIds |-> SetupPose]
    /\ applied = [b \in BoneIds |-> ZeroTransform]
    /\ matrix = [b \in BoneIds |-> IdentityMatrix]
    /\ skel = [scaleX |-> R(1), scaleY |-> R(1), x |-> R(0), y |-> R(0)]
    /\ yDown = FALSE
    /\ deprecatedWarning1 = FALSE
    /\ linkedMeshes = <<>>
    /\ decoder = Idle
    /\ last = NoOp

AnimationNext == readAnimation

AnimationSpec == AnimationInit /\ [][AnimationNext]_vars


(***************************************************************************)
(* Properties of readAnimation.                                            *)
(***************************************************************************)
AnyNaN(timelines) == \E i \in 1..Len(timelines) : IsNaN(timelines[i])

\* the largest of 0 and the durations, none of them NaN
LargestOf(timelines) ==
    CHOOSE m \in {R(0)} \cup {timelines[i] : i \in 1..Len(timelines)} :
        \A i \in 1..Len(timelines) : ~RLess(m, timelines[i]) /\ ~RLess(m, R(0))

\* C18: readAnimation raises when the duration of any of the timelines is NaN, and
\* then adds no Animation; otherwise it adds exactly one Animation, whose duration
\* is the largest of 0 and the durations of the timelines.
C18_AnimationDuration ==
    [][last'.op = "readAnimation" =>
          IF AnyNaN(last'.args.timelines)
          THEN last'.args.raised /\ animations' = animations
          ELSE /\ ~last'.args.raised
               /\ animations' = Append(animations, LargestOf(last'.args.timelines))]_vars

\* readAnimation has raised for timelines of which the first has the duration NaN
\* and a later one has not, after an Animation was added
C18_Witness ==
    /\ last.op = "readAnimation"
    /\ last.args.raised
    /\ Len(last.args.timelines) >= 2
    /\ IsNaN(last.args.timelines[1])
    /\ ~IsNaN(last.args.timelines[2])
    /\ Len(animations) = 1
    /\ animations[1] = R(2)


(***************************************************************************)
(* Skeleton.sortReset, called on any sorted flags.                         *)
(***************************************************************************)
SortResetCall ==
    /\ pc = "ready"
    /\ \E bones \in SeqsUpTo(BoneIds, NumBones) :
          /\ sorted' = sortReset([cache |-> _updateCache, reset |-> updateCacheReset,
                                  sorted |-> sorted, ok |-> TRUE], bones).sorted
          /\ last' = [op |-> "sortReset", bone |-> Null, args |-> bones]
    /\ UNCHANGED <<rigVars, skin, attachment, _updateCache, updateCacheReset, poseVars, skel,
                   envVars, pc>>

\* A skeleton without constraints, its bones in _updateCache, and any sorted flags.
SortInit ==
    /\ \E p \in ParentMaps :
          boneData = [b \in BoneIds |->
                         [parent |-> p[b], transformMode |-> "Normal", pose |-> SetupPose]]
    /\ ikConstraints = <<>> /\ transformConstraints = <<>> /\ pathConstraints = <<>>
    /\ slots = <<>> /\ skins = <<>> /\ defaultSkin = Null /\ skin = Null
    /\ names = NamesByIndex
    /\ animations = <<>>
    /\ attachment = <<>>
    /\ sorted \in [BoneIds -> BOOLEAN]
    /\ _updateCache = [i \in 1..NumBones |-> BoneEntry(i - 1)]
    /\ updateCacheReset = <<>>
    /\ pc = "ready"
    /\ local = [b \in BoneIds |-> SetupPose]
    /\ applied = [b \in BoneIds |-> ZeroTransform]
    /\ matrix = [b \in BoneIds |-> IdentityMatrix]
    /\ skel = [scaleX |-> R(1), scaleY |-> R(1), x |-> R(0), y |-> R(0)]
    /\ yDown = FALSE
    /\ deprecatedWarning1 = FALSE
    /\ linkedMeshes = <<>>
    /\ decoder = Idle
    /\ last = NoOp

SortNext == SortResetCall

SortSpec == SortInit /\ [][SortNext]_vars


(***************************************************************************)
(* Properties of sortReset.                                                *)
(***************************************************************************)
\* d is below b in the tree
RECURSIVE IsDescendant(_, _)
IsDescendant(b, d) ==
    Parent(d) # Null /\ (Parent(d) = b \/ IsDescendant(b, Parent(d)))

\* d is below b, and b and every bone between them has its sorted flag set
RECURSIVE BelowSorted(_, _)
BelowSorted(b, d) ==
    /\ Parent(d) # Null
    /\ sorted[Parent(d)]
    /\ (Parent(d) = b \/ BelowSorted(b, Parent(d)))

OnlySortedChanges == UNCHANGED <<rigVars, skin, attachment, _updateCache, updateCacheReset,
                                 poseVars, skel, envVars, pc>>

\* C20 as stated: sortReset(bones) leaves sorted false on every bone of the list and
\* on every descendant of such a bone, whatever the flags were, and changes neither
\* _updateCache nor updateCacheReset.
C20_Original ==
    [][last'.op = "sortReset" =>
          /\ \A b \in Range(last'.args) :
                ~sorted'[b] /\ \A d \in Bones : IsDescendant(b, d) => ~sorted'[d]
          /\ OnlySortedChanges]_vars

\* C20: sortReset(bones) leaves sorted false on every bone of the list and on every
\* descendant of such a bone that lies below it through bones whose flag was set
\* before the call; it sets no flag, and changes neither _updateCache nor
\* updateCacheReset nor anything else of the skeleton.
C20_Amended ==
    [][last'.op = "sortReset" =>
          /\ \A b \in Range(last'.args) :
                ~sorted'[b] /\ \A d \in Bones : BelowSorted(b, d) => ~sorted'[d]
          /\ \A b \in Bones : sorted'[b] => sorted[b]
          /\ OnlySortedChanges]_vars

\* sortReset has run on the root of a chain and has left the flag of a bone two
\* levels down set
C20_Witness ==
    /\ last.op = "sortReset"
    /\ \E b \in Range(last.args), d \in Bones :
          /\ IsDescendant(b, d)
          /\ sorted[d]
          /\ ~sorted[Parent(d)]
          /\ Parent(d) # b


(***************************************************************************)
(* Skeleton.updateWorldTransform: one frame over the cache.                *)
(***************************************************************************)
\* Bone.updateWorldTransformWith on the matrices mx
WorldOf(mx, b, t) ==
    IF boneData[b].parent = Null
    THEN RootWorld(skel, yDown, t)
    ELSE ChildWorld(boneData[b].transformMode, mx[boneData[b].parent], skel, yDown, t)

Logged(st, kind, index) == [st EXCEPT !.log = Append(@, [kind |-> kind, index |-> index])]

\* bone.ax = bone.x; ...; bone.ashearY = bone.shearY
ResetApplied(st, i) ==
    Logged([st EXCEPT !.applied[updateCacheReset[i]] = local[updateCacheReset[i]]], "reset", i)

\* updateCache[i].update(): a bone computes its world transform from its applied
\* transform; a constraint changes no local transform and neither list.
UpdateEntry(st, i) ==
    IF _updateCache[i].kind = "bone"
    THEN Logged([st EXCEPT !.matrix[_updateCache[i].index] =
                               WorldOf(st.matrix, _updateCache[i].index,
                                       st.applied[_updateCache[i].index])],
                "update", i)
    ELSE Logged(st, "update", i)

RECURSIVE UpdateFrom(_, _)
UpdateFrom(st, i) ==
    IF i > Len(_updateCache) THEN st ELSE UpdateFrom(UpdateEntry(st, i), i + 1)

RECURSIVE ResetFrom(_, _)
ResetFrom(st, i) ==
    IF i > Len(updateCacheReset) THEN st ELSE ResetFrom(ResetApplied(st, i), i + 1)

Frame_UpdatesFirst ==
    ResetFrom(UpdateFrom([applied |-> applied, matrix |-> matrix, log |-> <<>>], 1), 1)

Frame == UpdateFrom(ResetFrom([applied |-> applied, matrix |-> matrix, log |-> <<>>], 1), 1)

skeletonUpdateWorldTransform ==
    /\ pc = "ready"
    /\ applied' = Frame.applied
    /\ matrix' = Frame.matrix
    /\ last' = [op |-> "Skeleton.updateWorldTransform", bone |-> Null, args |-> Frame.log]
    /\ UNCHANGED <<rigVars, skin, attachment, cacheVars, local, skel, envVars, pc>>

\* The rigs of bones, IK constraints and transform constraints within the bounds.
FrameInit ==
    /\ \E p \in ParentMaps :
          boneData = [b \in BoneIds |->
                         [parent |-> p[b], transformMode |-> "Normal", pose |-> SetupPose]]
    /\ \E iks \in SeqsUpTo(IkData, MaxConstraints) :
          /\ ChainLength(iks) <= MaxSize
          /\ ikConstraints = iks
          /\ \E ts \in SeqsUpTo(TransformData, MaxConstraints - Len(iks)) :
                /\ ChainLength(iks) + ChainLength(ts) <= MaxSize
                /\ transformConstraints = ts
    /\ pathConstraints = <<>>
    /\ slots = <<>> /\ skins = <<>> /\ defaultSkin = Null /\ skin = Null
    /\ names = NamesByIndex
    /\ animations = <<>>
    /\ attachment = <<>>
    /\ sorted = [b \in BoneIds |-> FALSE]
    /\ _updateCache = <<>>
    /\ updateCacheReset = <<>>
    /\ pc = "data"
    /\ local = [b \in BoneIds |-> SetupPose]
    /\ applied = [b \in BoneIds |-> ZeroTransform]
    /\ matrix = [b \in BoneIds |-> IdentityMatrix]
    /\ skel = [scaleX |-> R(1), scaleY |-> R(1), x |-> R(0), y |-> R(0)]
    /\ yDown = FALSE
    /\ deprecatedWarning1 = FALSE
    /\ linkedMeshes = <<>>
    /\ decoder = Idle
    /\ last = NoOp

FrameNext ==
    \/ Construct
    \/ skeletonUpdateWorldTransform

FrameSpec == FrameInit /\ [][FrameNext]_vars


(***************************************************************************)
(* Properties of Skeleton.updateWorldTransform.                            *)
(***************************************************************************)
FrameRan == last.op = "Skeleton.updateWorldTransform"

\* the log is the resets 1..n in order and then the updates 1..m in order
ResetsThenUpdates(log, n, m) ==
    /\ Len(log) = n + m
    /\ \A i \in 1..n : log[i] = [kind |-> "reset", index |-> i]
    /\ \A i \in 1..m : log[n + i] = [kind |-> "update", index |-> i]

NoConstraints == constraintCount = 0

\* C22: for a skeleton with no constraints, updateCache() yields an _updateCache
\* that holds every bone exactly once, in the order of skeleton.bones, and an empty
\* updateCacheReset.
C22_DeclarationOrder ==
    (CacheComputed /\ NoConstraints) =>
        /\ _updateCache = [i \in 1..Cardinality(Bones) |-> BoneEntry(i - 1)]
        /\ updateCacheReset = <<>>

\* updateCache() has run on a skeleton without constraints in which the last bone is
\* not a child of the bone declared before it
C22_Witness ==
    /\ CacheComputed
    /\ NoConstraints
    /\ last.op = "updateCache"
    /\ \E b \in Bones : b > 1 /\ Parent(b) # b - 1

UpdateCacheRan == last.op \in {"constructor", "updateCache"}

\* C23: updateCache(), and so the Skeleton constructor, completes without raising
\* for every rig whose bone parents form a tree and whose constraint targets and
\* affected bones are bones of the skeleton, a local transform constraint on any
\* bone included.
C23_NeverRaises == UpdateCacheRan => pc = "ready"

\* a local transform constraint affects a bone without a parent, and its order is
\* that of no constraint before it
LocalOnRoot ==
    \E i \in DOMAIN transformConstraints :
        /\ transformConstraints[i].local
        /\ \E ii \in DOMAIN transformConstraints[i].bones :
              Parent(transformConstraints[i].bones[ii]) = Null

\* updateCache() raises only for a rig with a local transform constraint on a bone
\* without a parent.
RaisesOnlyForLocalOnRoot == (UpdateCacheRan /\ pc = "raised") => LocalOnRoot

BonesInBoth == {b \in Range(updateCacheReset) : InCache(_updateCache, BoneEntry(b))}

\* C24 as stated: after updateCache(), no bone is in both updateCacheReset and
\* _updateCache.
C24_Original == CacheComputed => BonesInBoth = {}

\* the skeleton has one constraint, and it is not a local transform constraint on
\* several bones
SingleMarker ==
    /\ constraintCount = 1
    /\ \A i \in DOMAIN transformConstraints :
          transformConstraints[i].local => Len(transformConstraints[i].bones) = 1

\* C24: after updateCache(), every bone of updateCacheReset is computed by a
\* constraint of _updateCache (as the last bone of an IK constraint or as a bone of
\* a local transform constraint); no bone is in both lists when the skeleton has a
\* single constraint that is not a local transform constraint on several bones.
C24_Amended ==
    CacheComputed =>
        /\ \A b \in Range(updateCacheReset) :
              \E k \in Positions : Writes(_updateCache[k], b)
        /\ SingleMarker => BonesInBoth = {}

\* updateCache() has marked a bone for reset in a skeleton with a single constraint
C24_WitnessSingle ==
    /\ CacheComputed
    /\ SingleMarker
    /\ updateCacheReset # <<>>

\* a bone of updateCacheReset that a later constraint has put back in _updateCache
C24_Witness ==
    /\ CacheComputed
    /\ \E b \in BonesInBoth :
          \E k \in Positions :
              /\ Writes(_updateCache[k], b)
              /\ ~OccursBefore(b, k)
              /\ \E j \in Positions : j > k /\ _updateCache[j] = BoneEntry(b)


(***************************************************************************)
(* Skeleton.flipX and flipY, the deprecated accessors over scaleX, scaleY. *)
(***************************************************************************)
\* get flipX / get flipY
flipX == skel.scaleX = R(-1)

flipY == skel.scaleY = R(-1)

\* value ? 1.0 : -1.0
FlipScale(value) == IF value THEN R(1) ELSE R(-1)

\* set flipX(value): the warning is given once per program
setFlipX ==
    /\ pc = "ready"
    /\ \E value \in BOOLEAN :
          /\ skel' = [skel EXCEPT !.scaleX = FlipScale(value)]
          /\ last' = [op |-> "flipX", bone |-> Null, args |-> value]
    /\ deprecatedWarning1' = TRUE
    /\ UNCHANGED <<rigVars, skin, attachment, cacheVars, poseVars, yDown, linkedMeshes, decoder, pc>>

\* set flipY(value)
setFlipY ==
    /\ pc = "ready"
    /\ \E value \in BOOLEAN :
          /\ skel' = [skel EXCEPT !.scaleY = FlipScale(value)]
          /\ last' = [op |-> "flipY", bone |-> Null, args |-> value]
    /\ deprecatedWarning1' = TRUE
    /\ UNCHANGED <<rigVars, skin, attachment, cacheVars, poseVars, yDown, linkedMeshes, decoder, pc>>

FlipNext ==
    \/ setFlipX
    \/ setFlipY
    \/ updateWorldTransform

FlipSpec == BoneInit /\ [][FlipNext]_vars

\* C30: after flipX := v, reading flipX returns v, and after flipY := v, reading
\* flipY returns v, for either boolean v.
C30_RoundTrip ==
    /\ last.op = "flipX" => flipX = last.args
    /\ last.op = "flipY" => flipY = last.args

\* What the accessors do instead: the value read back is the negation of the value
\* assigned.
FlipReadsNegation ==
    /\ last.op = "flipX" => flipX = ~last.args
    /\ last.op = "flipY" => flipY = ~last.args

\* An assignment to flipX changes no skeleton field but scaleX, one to flipY none
\* but scaleY.
FlipKeepsOtherFields ==
    [][/\ setFlipX => skel' = [skel EXCEPT !.scaleX = skel'.scaleX]
       /\ setFlipY => skel' = [skel EXCEPT !.scaleY = skel'.scaleY]]_vars


(***************************************************************************)
(* SkeletonJson.readAnimation: the curve timelines.  A timeline is the log *)
(* of the calls made on it: [call, frame, bezier, value, args].  A JSON    *)
(* keyframe is a record whose absent properties are Undefined; its curve   *)
(* is "" (absent), "stepped" or "bezier" (an array of control points).     *)
(***************************************************************************)
Undefined == -2

MaxFrames == 2              \* keyframes per timeline

\* getValue(map, property, defaultValue)
getValue(map, property, defaultValue) ==
    IF map[property] # Undefined THEN map[property] ELSE defaultValue

Called(st, call, frame, bezier, value, args) ==
    [st EXCEPT !.log = Append(@, [call |-> call, frame |-> frame, bezier |-> bezier,
                                  value |-> value, args |-> args])]

readCurve_SteppedAdvances(st, curve, frame, value) ==
    IF curve = "stepped"
    THEN [Called(st, "setStepped", frame, Null, Null, <<>>) EXCEPT !.bezier = @ + 1]
    ELSE [Called(st, "setBezier", frame, st.bezier, value, <<>>) EXCEPT !.bezier = @ + 1]

\* readCurve(curve, timeline, bezier, frame, value, ...): st.bezier is the index
\* passed in and the index returned
readCurve(st, curve, frame, value) ==
    IF curve = "stepped"
    THEN Called(st, "setStepped", frame, Null, Null, <<>>)
    ELSE [Called(st, "setBezier", frame, st.bezier, value, <<>>) EXCEPT !.bezier = @ + 1]

\* if (curve) { bezier = readCurve(.., 0, ..); ...; bezier = readCurve(.., channels - 1, ..) }
RECURSIVE ReadCurves(_, _, _, _, _)
ReadCurves(st, curve, frame, value, channels) ==
    IF curve = "" \/ value >= channels THEN st
    ELSE ReadCurves(readCurve(st, curve, frame, value), curve, frame, value + 1, channels)

NewTimeline == [log |-> <<>>, bezier |-> 0]

\* The loop "for (let frame = 0, bezier = 0; ; frame++)" of a timeline whose frames
\* hold a time only: keys[frame + 1] is the keyMap of the frame.
RECURSIVE CurveLoop(_, _, _, _)
CurveLoop(st, keys, frame, channels) ==
    LET set == Called(st, "setFrame", frame, Null, Null,
                      <<getValue(keys[frame + 1], "time", 0)>>)
    IN  IF frame + 2 > Len(keys)
        THEN Called(set, "shrink", Null, set.bezier, Null, <<>>)
        ELSE CurveLoop(ReadCurves(set, keys[frame + 1].curve, frame, 0, channels),
                       keys, frame + 1, channels)

\* The timelines read by such a loop: the number of readCurve calls per frame
Channels ==
    [timeline1 |-> 1, timeline2 |-> 2, rgba |-> 4, rgb |-> 3, rgba2 |-> 7, rgb2 |-> 6,
     ik |-> 2, pathMix |-> 3, deform |-> 1, transform |-> 6]

\* the bezierCount each timeline is constructed with
BezierCapacity(kind, frames) ==
    CASE kind = "timeline1" -> frames
      [] kind = "timeline2" -> frames * 2
      [] kind = "rgba" -> frames * 4
      [] kind = "rgb" -> frames * 3
      [] kind = "rgba2" -> frames * 7
      [] kind = "rgb2" -> frames * 6
      [] kind = "ik" -> frames * 2
      [] kind = "pathMix" -> frames * 3
      [] kind = "deform" -> frames
      [] kind = "transform" -> frames * 6

\* The seven values of a transform-constraint keyframe, with their defaults.
TransformValues(keyMap) ==
    LET mixX == getValue(keyMap, "mixX", 1)
        mixScaleX == getValue(keyMap, "mixScaleX", 1)
    IN  [time |-> getValue(keyMap, "time", 0),
         mixRotate |-> getValue(keyMap, "mixRotate", 1),
         mixX |-> mixX,
         mixY |-> getValue(keyMap, "mixY", mixX),
         mixScaleX |-> mixScaleX,
         mixScaleY |-> getValue(keyMap, "mixScaleY", mixScaleX),
         mixShearY |-> getValue(keyMap, "mixShearY", 1)]

FrameArgs(v) ==
    <<v.time, v.mixRotate, v.mixX, v.mixY, v.mixScaleX, v.mixScaleY, v.mixShearY>>

\* time = time2; mixRotate = mixRotate2; mixX = mixX2; mixY = mixY2;
\* mixScaleX = mixScaleX2; mixScaleY = mixScaleY2; mixScaleX = mixScaleX2;
CarryOver(cur, next) == [next EXCEPT !.mixShearY = cur.mixShearY]

\* The loop of a transform-constraint timeline: cur are the values of the frame.
RECURSIVE TransformLoop(_, _, _, _)
TransformLoop(st, keys, frame, cur) ==
    LET set == Called(st, "setFrame", frame, Null, Null, FrameArgs(cur))
    IN  IF frame + 2 > Len(keys)
        THEN Called(set, "shrink", Null, set.bezier, Null, <<>>)
        ELSE TransformLoop(ReadCurves(set, keys[frame + 1].curve, frame, 0, 6),
                           keys, frame + 1,
                           CarryOver(cur, TransformValues(keys[frame + 2])))

Curves == {"", "stepped", "bezier"}

TimeKeys == {[time |-> t, curve |-> c] : t \in {Undefined, 1}, c \in Curves}

TransformProperties ==
    {"time", "mixRotate", "mixX", "mixY", "mixScaleX", "mixScaleY", "mixShearY"}

\* a value that is not the default of the property
JsonValue ==
    [time |-> 1, mixRotate |-> 0, mixX |-> 2, mixY |-> 0, mixScaleX |-> 2,
     mixScaleY |-> 0, mixShearY |-> 0]

TransformKey(given, c) ==
    [p \in TransformProperties |-> IF p \in given THEN JsonValue[p] ELSE Undefined]
        @@ [curve |-> c]

\* the properties a keyframe gives: none, one, a pair of which one is the default
\* of the other, or all
GivenSets ==
    {{}, TransformProperties, {"mixX", "mixY"}, {"mixScaleX", "mixScaleY"}}
        \cup {{p} : p \in TransformProperties}

TransformKeys == {TransformKey(given, c) : given \in GivenSets, c \in Curves}

\* One of the loops that read times only; an empty array has no keys[0], and
\* reading its time throws.  The timelines of an animation share no state: one
\* timeline is read per behaviour.
readCurveTimeline ==
    /\ pc = "data"
    /\ last = NoOp
    /\ \E kind \in DOMAIN Channels \ {"transform"} :
          \E keys \in SeqsUpTo(TimeKeys, MaxFrames) :
              last' = [op |-> "readCurveTimeline", bone |-> Null,
                       args |-> [kind |-> kind, keys |-> keys,
                                 built |-> keys # <<>>,
                                 capacity |-> BezierCapacity(kind, Len(keys)),
                                 log |-> IF keys = <<>> THEN <<>>
                                         ELSE CurveLoop(NewTimeline, keys, 0,
                                                        Channels[kind]).log]]
    /\ UNCHANGED <<rigVars, skin, attachment, cacheVars, poseVars, skel, envVars, pc>>

\* The transform-constraint timeline of one constraint: if (!keyMap) continue.
readTransformTimeline ==
    /\ pc = "data"
    /\ last = NoOp
    /\ \E keys \in SeqsUpTo(TransformKeys, MaxFrames) :
          last' = [op |-> "readTransformTimeline", bone |-> Null,
                   args |-> [kind |-> "transform", keys |-> keys,
                             built |-> keys # <<>>,
                             capacity |-> BezierCapacity("transform", Len(keys)),
                             log |-> IF keys = <<>> THEN <<>>
                                     ELSE TransformLoop(NewTimeline, keys, 0,
                                                        TransformValues(keys[1])).log]]
    /\ UNCHANGED <<rigVars, skin, attachment, cacheVars, poseVars, skel, envVars, pc>>

TimelineNext ==
    \/ readCurveTimeline
    \/ readTransformTimeline

TimelineSpec == AnimationInit /\ [][TimelineNext]_vars

(***************************************************************************)
(* Properties of the curve timelines.                                      *)
(***************************************************************************)
TimelineBuilt == last.op \in {"readCurveTimeline", "readTransformTimeline"} /\ last.args.built

CallsOf(log, call) == SelectSeq(log, LAMBDA e : e.call = call)

\* C25: the k-th setFrame call of a transform-constraint timeline receives the
\* time and the six mixes of the k-th keyframe, each with its default when the
\* keyframe does not give it.
C25_FramesMatchKeys ==
    (TimelineBuilt /\ last.op = "readTransformTimeline") =>
        LET frames == CallsOf(last.args.log, "setFrame")
        IN  /\ Len(frames) = Len(last.args.keys)
            /\ \A k \in DOMAIN frames :
                  /\ frames[k].frame = k - 1
                  /\ frames[k].args = FrameArgs(TransformValues(last.args.keys[k]))

\* What holds of every frame: all values but mixShearY are those of the keyframe,
\* and mixShearY is that of the first keyframe.
FramesMatchButShearY ==
    (TimelineBuilt /\ last.op = "readTransformTimeline") =>
        LET frames == CallsOf(last.args.log, "setFrame")
        IN  /\ Len(frames) = Len(last.args.keys)
            /\ \A k \in DOMAIN frames :
                  frames[k].args =
                      FrameArgs([TransformValues(last.args.keys[k]) EXCEPT
                                    !.mixShearY = TransformValues(last.args.keys[1]).mixShearY])

\* C26: on every curve timeline built, shrink is called once, as the last call and so
\* after the last setFrame, with the number of setBezier calls; the setBezier calls
\* have the bezier indices 0, 1, 2, ... in order, and are no more than the bezier
\* capacity of the timeline; a "stepped" curve calls setStepped and no setBezier
\* for its frame.
C26_BezierBookkeeping ==
    TimelineBuilt =>
        LET log == last.args.log
            keys == last.args.keys
            beziers == CallsOf(log, "setBezier")
        IN  /\ Len(CallsOf(log, "shrink")) = 1
            /\ log[Len(log)].call = "shrink"
            /\ log[Len(log) - 1].call = "setFrame"
            /\ log[Len(log) - 1].frame = Len(keys) - 1
            /\ log[Len(log)].bezier = Len(beziers)
            /\ \A k \in DOMAIN beziers : beziers[k].bezier = k - 1
            /\ Len(beziers) <= last.args.capacity
            /\ \A f \in 1..(Len(keys) - 1) :
                  keys[f].curve = "stepped" =>
                      /\ \E e \in Range(log) : e.call = "setStepped" /\ e.frame = f - 1
                      /\ \A e \in Range(log) : e.call = "setBezier" => e.frame # f - 1

\* a timeline of several channels with a bezier curve on its first frame
C26_Witness ==
    /\ TimelineBuilt
    /\ Channels[last.args.kind] > 1
    /\ Len(last.args.keys) = MaxFrames
    /\ \E f \in 1..(Len(last.args.keys) - 1) : last.args.keys[f].curve = "bezier"
    /\ \E e \in Range(last.args.log) : e.call = "setBezier" /\ e.bezier > 0

\* a timeline with a stepped frame
C26_WitnessStepped ==
    /\ TimelineBuilt
    /\ \E e \in Range(last.args.log) : e.call = "setStepped"


(***************************************************************************)
(* SkeletonJson.readAnimation: the draw-order keyframes.  decoder holds    *)
(* the locals of the loop over one keyframe's offsets; arrays are indexed  *)
(* from 0 as in the code.  A number that reaches MaxIndex stays there, as  *)
(* a double does at 2^53, where n + 1 = n.                                 *)
(***************************************************************************)
NumDrawSlots == 3           \* skeletonData.slots.length

MaxOffsets == 2             \* entries of one offsets list

MaxIndex == 5               \* stands for 2^53

Inc(n) == IF n < MaxIndex THEN n + 1 ELSE n

\* array[i]
ArrGet(array, i) == IF i \in 0..(Len(array) - 1) THEN array[i + 1] ELSE Undefined

\* array[i] = v: a negative i sets a property and no element, an i beyond the
\* length extends the array over a hole
ArrSet(array, i, v) ==
    IF i < 0 THEN array
    ELSE [k \in 1..(IF i + 1 > Len(array) THEN i + 1 ELSE Len(array)) |->
             IF k = i + 1 THEN v ELSE IF k <= Len(array) THEN array[k] ELSE Undefined]

slotCount == Len(slots)

\* skeletonData.findSlot(offsetMap.slot).index, Null when findSlot returns null
SlotIndexOf(name) ==
    IF DataFind(names.slots, name) = Null THEN Null ELSE DataFind(names.slots, name) - 1

CurrentOffset == decoder.offsets[decoder.ii + 1]

InOffsets == pc = "data" /\ decoder.pc = "offsets" /\ decoder.ii < Len(decoder.offsets)

DecoderFrame == <<rigVars, skin, attachment, cacheVars, poseVars, skel, yDown,
                  deprecatedWarning1, linkedMeshes, pc, last>>

\* One draw-order keyframe: offsets absent, or a list of [slot, offset].
DrawOrderMaps ==
    {[hasOffsets |-> FALSE, offsets |-> <<>>]}
        \cup {[hasOffsets |-> TRUE, offsets |-> o] :
                 o \in SeqsUpTo([slot : {"a", "b", "c", "z"},
                                 offset : (1 - NumDrawSlots)..(NumDrawSlots - 1)],
                                MaxOffsets)}

\* let drawOrder = null; let offsets = getValue(drawOrderMap, "offsets", null);
\* if (offsets) { drawOrder = newArray(slotCount, -1); unchanged = newArray(..., 0) }
\* without offsets the keyframe is set at once, with drawOrder null.  The
\* keyframes share no state: one keyframe is decoded per behaviour.
beginKeyframe ==
    /\ pc = "data"
    /\ decoder.pc = "idle"
    /\ \E drawOrderMap \in DrawOrderMaps :
          decoder' =
              IF ~drawOrderMap.hasOffsets THEN [Idle EXCEPT !.pc = "done"]
              ELSE [pc |-> "offsets", offsets |-> drawOrderMap.offsets, ii |-> 0,
                    originalIndex |-> 0, unchangedIndex |-> 0,
                    drawOrder |-> [k \in 1..slotCount |-> -1],
                    unchanged |-> [k \in 1..(slotCount - Len(drawOrderMap.offsets)) |-> 0],
                    isNull |-> FALSE]
    /\ UNCHANGED DecoderFrame

\* findSlot returns null and .index is read of it
slotNotFound ==
    /\ InOffsets
    /\ SlotIndexOf(CurrentOffset.slot) = Null
    /\ decoder' = [decoder EXCEPT !.pc = "raised"]
    /\ UNCHANGED DecoderFrame

\* while (originalIndex != slotIndex) unchanged[unchangedIndex++] = originalIndex++;
\* one iteration
collectUnchanged ==
    /\ InOffsets
    /\ SlotIndexOf(CurrentOffset.slot) # Null
    /\ decoder.originalIndex # SlotIndexOf(CurrentOffset.slot)
    /\ decoder' = [decoder EXCEPT
                      !.unchanged = ArrSet(@, decoder.unchangedIndex, decoder.originalIndex),
                      !.unchangedIndex = Inc(@),
                      !.originalIndex = Inc(@)]
    /\ UNCHANGED DecoderFrame

\* drawOrder[originalIndex + offsetMap.offset] = originalIndex++; then ii++
setChanged ==
    /\ InOffsets
    /\ decoder.originalIndex = SlotIndexOf(CurrentOffset.slot)
    /\ decoder' = [decoder EXCEPT
                      !.drawOrder = ArrSet(@, decoder.originalIndex + CurrentOffset.offset,
                                           decoder.originalIndex),
                      !.originalIndex = Inc(@),
                      !.ii = @ + 1]
    /\ UNCHANGED DecoderFrame

\* while (originalIndex < slotCount) unchanged[unchangedIndex++] = originalIndex++;
RECURSIVE CollectRemaining(_)
CollectRemaining(d) ==
    IF d.originalIndex >= slotCount THEN d
    ELSE CollectRemaining([d EXCEPT
                              !.unchanged = ArrSet(@, d.unchangedIndex, d.originalIndex),
                              !.unchangedIndex = Inc(@),
                              !.originalIndex = Inc(@)])

RECURSIVE FillUnchanged_Upwards(_, _)
FillUnchanged_Upwards(d, ii) ==
    IF ii < 0 THEN d
    ELSE IF ArrGet(d.drawOrder, slotCount - 1 - ii) = -1
    THEN FillUnchanged_Upwards([d EXCEPT
                                   !.drawOrder = ArrSet(@, slotCount - 1 - ii,
                                                        ArrGet(d.unchanged, d.unchangedIndex - 1)),
                                   !.unchangedIndex = @ - 1],
                               ii - 1)
    ELSE FillUnchanged_Upwards(d, ii - 1)

\* for (let ii = slotCount - 1; ii >= 0; ii--)
\*     if (drawOrder[ii] == -1) drawOrder[ii] = unchanged[--unchangedIndex];
RECURSIVE FillUnchanged(_, _)
FillUnchanged(d, ii) ==
    IF ii < 0 THEN d
    ELSE IF ArrGet(d.drawOrder, ii) = -1
    THEN FillUnchanged([d EXCEPT
                           !.drawOrder = ArrSet(@, ii, ArrGet(d.unchanged, d.unchangedIndex - 1)),
                           !.unchangedIndex = @ - 1],
                       ii - 1)
    ELSE FillUnchanged(d, ii - 1)

\* after the last offset: the two loops that follow, and timeline.setFrame
finishKeyframe ==
    /\ pc = "data"
    /\ decoder.pc = "offsets"
    /\ decoder.ii = Len(decoder.offsets)
    /\ decoder' = [FillUnchanged(CollectRemaining(decoder), slotCount - 1) EXCEPT
                      !.pc = "done"]
    /\ UNCHANGED DecoderFrame

DrawOrderInit ==
    /\ boneData = ChainBones
    /\ ikConstraints = <<>> /\ transformConstraints = <<>> /\ pathConstraints = <<>>
    /\ slots = [k \in 1..NumDrawSlots |-> [bone |-> 0, attachmentName |-> NoName]]
    /\ skins = <<>> /\ defaultSkin = Null /\ skin = Null
    /\ names = [NamesByIndex EXCEPT !.slots = [k \in 1..NumDrawSlots |-> Letters[k]]]
    /\ animations = <<>>
    /\ attachment = <<>>
    /\ sorted = [b \in BoneIds |-> FALSE]
    /\ _updateCache = <<>>
    /\ updateCacheReset = <<>>
    /\ pc = "data"
    /\ local = [b \in BoneIds |-> SetupPose]
    /\ applied = [b \in BoneIds |-> ZeroTransform]
    /\ matrix = [b \in BoneIds |-> IdentityMatrix]
    /\ skel = [scaleX |-> R(1), scaleY |-> R(1), x |-> R(0), y |-> R(0)]
    /\ yDown = FALSE
    /\ deprecatedWarning1 = FALSE
    /\ linkedMeshes = <<>>
    /\ decoder = Idle
    /\ last = NoOp

DrawOrderNext ==
    \/ beginKeyframe
    \/ slotNotFound
    \/ collectUnchanged
    \/ setChanged
    \/ finishKeyframe

DrawOrderSpec == DrawOrderInit /\ [][DrawOrderNext]_vars

\* The loader runs on: a step of the loop that can be taken is taken.
DrawOrderLive == DrawOrderSpec /\ WF_vars(DrawOrderNext)

(***************************************************************************)
(* Properties of the draw-order keyframes.                                 *)
(***************************************************************************)
Listed == DOMAIN decoder.offsets

SlotOf(k) == SlotIndexOf(decoder.offsets[k].slot)

TargetOf(k) == SlotOf(k) + decoder.offsets[k].offset

AllSlotsExist == \A k \in Listed : SlotOf(k) # Null

\* the offsets name existing slots in strictly increasing slot index, and their
\* targets are in range and pairwise distinct
WellFormedOffsets ==
    /\ AllSlotsExist
    /\ \A j, k \in Listed : j < k => SlotOf(j) < SlotOf(k)
    /\ \A k \in Listed : TargetOf(k) \in 0..(slotCount - 1)
    /\ \A j, k \in Listed : j # k => TargetOf(j) # TargetOf(k)

ListedSlots == {SlotOf(k) : k \in Listed}

KeyframeSet == decoder.pc = "done"

\* C27: a keyframe whose offsets are well formed gets a drawOrder that is a
\* permutation of 0..slotCount-1, with every listed slot at its index plus its
\* offset and the other slots in the remaining positions in increasing index; a
\* keyframe without offsets gets a null drawOrder.
C27_DrawOrderDecoded ==
    KeyframeSet =>
        /\ decoder.isNull => decoder.drawOrder = <<>>
        /\ (~decoder.isNull /\ WellFormedOffsets) =>
              /\ Len(decoder.drawOrder) = slotCount
              /\ Range(decoder.drawOrder) = 0..(slotCount - 1)
              /\ \A k \in Listed : ArrGet(decoder.drawOrder, TargetOf(k)) = SlotOf(k)
              /\ \A p, q \in 0..(slotCount - 1) :
                    (/\ p < q
                     /\ ArrGet(decoder.drawOrder, p) \notin ListedSlots
                     /\ ArrGet(decoder.drawOrder, q) \notin ListedSlots)
                        => ArrGet(decoder.drawOrder, p) < ArrGet(decoder.drawOrder, q)

\* a keyframe was decoded that moves one slot past two others
C27_Witness ==
    /\ KeyframeSet
    /\ ~decoder.isNull
    /\ WellFormedOffsets
    /\ \E k \in Listed : decoder.offsets[k].offset \notin {-1, 0, 1}
    /\ decoder.drawOrder # [k \in 1..slotCount |-> k - 1]

\* a keyframe without offsets was set
C27_WitnessNull == KeyframeSet /\ decoder.isNull

\* C28: the decoding of an offsets list whose slot names all exist comes to its
\* end, whatever the order of the slots and even if a slot is listed twice.
C28_Terminates == (decoder.pc = "offsets" /\ AllSlotsExist) ~> KeyframeSet

\* The decoding comes to its end when the listed slots are in strictly increasing
\* slot index.
TerminatesWhenIncreasing ==
    (/\ decoder.pc = "offsets"
     /\ AllSlotsExist
     /\ \A j, k \in Listed : j < k => SlotOf(j) < SlotOf(k)) ~> KeyframeSet

\* In the loop that cannot end: originalIndex is past the slot it is compared with.
PastTheSlot ==
    /\ InOffsets
    /\ SlotIndexOf(CurrentOffset.slot) # Null
    /\ decoder.originalIndex > SlotIndexOf(CurrentOffset.slot)

\* Once originalIndex is past the slot, it stays past it and the keyframe is never set.
PastTheSlotForever == [][PastTheSlot => PastTheSlot']_vars


(***************************************************************************)
(* SkeletonJson.readSkeletonData: the skins and the linked meshes.  The    *)
(* loader keeps linkedMeshes from one call to the next.  A skin is known   *)
(* by its index in skeletonData.skins (from 1); the attachments set so far *)
(* are triples <<skin, slotIndex, name>>.                                  *)
(***************************************************************************)
MaxJsonSkins == 2           \* skins of one document

MaxEntries == 1             \* attachments of one skin

MaxPending == 3             \* linked meshes kept by the loader

JsonSlotName == <<"s">>

\* if (skin.name == "default") skeletonData.defaultSkin = skin: the last such skin
RECURSIVE LastDefault(_, _)
LastDefault(skinNames, i) ==
    IF i = 0 THEN Null
    ELSE IF skinNames[i] = "default" THEN i
    ELSE LastDefault(skinNames, i - 1)

\* readAttachment for a mesh with a parent: the linked mesh pushed
LinkedMesh(skinIndex, slotIndex, e) ==
    [mesh |-> <<skinIndex, e.name>>, skin |-> e.skin, slotIndex |-> slotIndex,
     parent |-> e.parent]

\* One entry of skinMap.attachments: findSlot, readAttachment, skin.setAttachment.
ReadEntry(st, skinIndex, e) ==
    IF ~st.ok THEN st
    ELSE IF DataFind(JsonSlotName, e.slot) = Null THEN [st EXCEPT !.ok = FALSE]
    ELSE LET slotIndex == DataFind(JsonSlotName, e.slot) - 1
             set == [st EXCEPT !.attachments = @ \cup {<<skinIndex, slotIndex, e.name>>}]
         IN  IF e.type = "mesh" /\ e.parent # NoName
             THEN [set EXCEPT !.linked = Append(@, LinkedMesh(skinIndex, slotIndex, e)),
                              !.recorded = Append(@, LinkedMesh(skinIndex, slotIndex, e))]
             ELSE set

RECURSIVE ReadEntries(_, _, _)
ReadEntries(st, skinIndex, entries) ==
    IF entries = <<>> THEN st
    ELSE ReadEntries(ReadEntry(st, skinIndex, Head(entries)), skinIndex, Tail(entries))

\* The skins loop: a skin is pushed once its attachments are read.
RECURSIVE ReadSkins(_, _)
ReadSkins(st, skinMaps) ==
    IF skinMaps = <<>> \/ ~st.ok THEN st
    ELSE LET read == ReadEntries(st, Len(st.skins) + 1, Head(skinMaps).attachments)
         IN  ReadSkins(IF read.ok THEN [read EXCEPT !.skins = Append(@, Head(skinMaps).name)]
                       ELSE read,
                       Tail(skinMaps))

\* let skin = !linkedMesh.skin ? skeletonData.defaultSkin : skeletonData.findSkin(linkedMesh.skin)
SkinOfLinked(st, linkedMesh) ==
    IF linkedMesh.skin = NoName THEN LastDefault(st.skins, Len(st.skins))
    ELSE DataFind(st.skins, linkedMesh.skin)

\* The linked meshes loop from index i, and linkedMeshes.length = 0 after it;
\* skin.getAttachment of a null skin throws.
RECURSIVE ResolveLinked(_, _)
ResolveLinked(st, i) ==
    IF ~st.ok THEN st
    ELSE IF i > Len(st.linked) THEN [st EXCEPT !.linked = <<>>]
    ELSE IF SkinOfLinked(st, st.linked[i]) = Null THEN [st EXCEPT !.ok = FALSE]
    ELSE ResolveLinked([st EXCEPT !.resolved = Append(@, st.linked[i])], i + 1)

\* readSkeletonData(root) on a loader that holds the linked meshes pending
ReadLinked(root, pending) ==
    ResolveLinked(ReadSkins([ok |-> TRUE, linked |-> pending, recorded |-> <<>>,
                             resolved |-> <<>>, skins |-> <<>>, attachments |-> {}],
                            root.skins),
                  1)

\* The attachments of the documents: a mesh, meshes linked to it through the
\* default skin, the skin "k" or a skin "q" no document has, and a region in a
\* slot "z" no document has.
JsonEntries ==
    {[slot |-> "s", name |-> "m", type |-> "mesh", parent |-> NoName, skin |-> NoName],
     [slot |-> "z", name |-> "m", type |-> "region", parent |-> NoName, skin |-> NoName]}
        \cup {[slot |-> "s", name |-> "n", type |-> "mesh", parent |-> "m", skin |-> sk] :
                 sk \in {NoName, "k", "q"}}

JsonSkins == [name : {"default", "k"}, attachments : SeqsUpTo(JsonEntries, MaxEntries)]

SkinRoots == [skins : SeqsUpTo(JsonSkins, MaxJsonSkins)]

\* A call on the loader, with a document whose other sections are read without
\* error; the loader can be called again whatever the outcome.
readSkeletonDataSkins ==
    /\ pc = "json"
    /\ \E root \in SkinRoots :
          LET read == ReadLinked(root, linkedMeshes)
          IN  /\ Len(read.linked) <= MaxPending
              /\ linkedMeshes' = read.linked
              /\ last' = [op |-> "readSkeletonData", bone |-> Null,
                          args |-> [raised |-> ~read.ok, recorded |-> read.recorded,
                                    resolved |-> read.resolved, skins |-> read.skins]]
    /\ UNCHANGED <<rigVars, skin, attachment, cacheVars, poseVars, skel, yDown,
                   deprecatedWarning1, decoder, pc>>

LinkNext == readSkeletonDataSkins

LinkSpec == LoadInit /\ [][LinkNext]_vars

(***************************************************************************)
(* Properties of the linked meshes.                                        *)
(***************************************************************************)
SkeletonDataRead == last.op = "readSkeletonData"

\* C29: after any call of readSkeletonData, whether it returned or raised, the
\* loader's linkedMeshes list is empty.
C29_LinkedMeshesEmptied == SkeletonDataRead => linkedMeshes = <<>>

\* After a call that returned, the list is empty.
EmptiedWhenReturned == (SkeletonDataRead /\ ~last.args.raised) => linkedMeshes = <<>>

\* The linked meshes resolved during a call are those recorded during the call.
ResolvedAreRecorded ==
    (SkeletonDataRead /\ ~last.args.raised) => last.args.resolved = last.args.recorded

====
